---- MODULE Spec2Model ----
(***************************************************************************)
(* A model of it.js (https://github.com/HiaslTiasl/it): the fused          *)
(* traversal loop mapReduce, the Filtered sentinels, the setup/teardown    *)
(* hooks attached to function objects and the pipe fusion.                 *)
(*                                                                         *)
(* JavaScript values are records [t, v, c]: t is the type tag, v a number  *)
(* (the number itself, a function's or wrapper's heap address, the offset  *)
(* of a FilteredUntil) and c the entries of a collection (key -> value).   *)
(* Function objects live in a heap (a sequence, address = index) because   *)
(* the library attaches hooks to them as mutable properties and because    *)
(* closures share their variables with their hooks.  The caller of the     *)
(* library is a straight-line client program prog, executed one library    *)
(* call at a time; a traversal is executed one loop iteration at a time.   *)
(***************************************************************************)
EXTENDS Integers, Sequences, FiniteSets, TLC

VARIABLES
    prog,        \* the client program: a sequence of library calls
    input,       \* the collection the client passes to the library
    ip,          \* index of the next call of prog
    regs,        \* regs[n]: value returned by the n-th call of prog
    heap,        \* function objects, addressed by index
    wrappers,    \* Wrapper objects, addressed by index
    log,         \* trace of the current traversal: hooks run, positions
                 \* visited, calls and returns of function objects
    pc,          \* "idle" (between calls) or "loop" (inside mapReduce)
    coll, m, r, hasReducer, isArr, arr, len, i, resI, resIsFirst, res
                 \* the arguments and locals of the running mapReduce

vars == <<prog, input, ip, regs, heap, wrappers, log, pc,
          coll, m, r, hasReducer, isArr, arr, len, i, resI, resIsFirst, res>>

frame == <<coll, m, r, hasReducer, isArr, arr, len, i, resI, resIsFirst, res>>

---------------------------------------------------------------------------
(* Bounds of the model *)

MaxLen   == 3      \* longest input collection
MaxValue == 2      \* input items are numbers 1..MaxValue
MaxPipe  == 2      \* longest pipe built from the step catalogue

---------------------------------------------------------------------------
(* JavaScript values *)

NoElems == [k \in {} |-> 0]

Mk(t, v) == [t |-> t, v |-> v, c |-> NoElems]

Num(n)    == Mk("number", n)
Bool(b)   == Mk("boolean", IF b THEN 1 ELSE 0)
Fn(a)     == Mk("function", a)
Wr(a)     == Mk("wrapper", a)
UNDEFINED == Mk("undefined", 0)
NULL      == Mk("null", 0)
NAN       == Mk("NaN", 0)
THROWN    == Mk("throw", 0)      \* not a value: the call raised an exception

(* An array is an object with keys 0, 1, ...; a keyed mapping has keys of  *)
(* its own.  Object.keys enumerates integer-like keys in ascending order.  *)
Arr(elems) == [t |-> "array",  v |-> 0, c |-> elems]
Obj(elems) == [t |-> "object", v |-> 0, c |-> elems]

Max(S) == CHOOSE x \in S : \A y \in S : y <= x

RECURSIVE SortedSeq(_)
SortedSeq(S) ==
    IF S = {} THEN << >>
    ELSE LET lo == CHOOSE x \in S : \A y \in S : x <= y
         IN  <<lo>> \o SortedSeq(S \ {lo})

(* Array.isArray *)
IsArray(x) == x.t = "array"

(* Array.prototype.length: one more than the largest index *)
Length(a) == IF DOMAIN a.c = {} THEN 0 ELSE Max(DOMAIN a.c) + 1

(* Object.keys *)
ObjectKeys(o) == SortedSeq(DOMAIN o.c)

(* coll[key]: undefined for a missing property *)
Get(o, key) == IF key \in DOMAIN o.c THEN o.c[key] ELSE UNDEFINED

(* obj[key] = val *)
Put(o, key, val) ==
    [o EXCEPT !.c = [k \in DOMAIN o.c \cup {key} |->
                        IF k = key THEN val ELSE o.c[k]]]

(* ToBoolean *)
Truthy(x) ==
    CASE x.t = "number"    -> x.v # 0
      [] x.t = "boolean"   -> x.v = 1
      [] x.t = "undefined" -> FALSE
      [] x.t = "null"      -> FALSE
      [] x.t = "NaN"       -> FALSE
      [] OTHER             -> TRUE

(* ToNumber *)
ToNumber(x) ==
    CASE x.t = "number"  -> x
      [] x.t = "boolean" -> Mk("number", x.v)
      [] x.t = "null"    -> Mk("number", 0)
      [] OTHER           -> Mk("NaN", 0)

(* ++x: the new value of x *)
PreIncrement(x) ==
    IF ToNumber(x).t = "number" THEN Mk("number", ToNumber(x).v + 1)
    ELSE Mk("NaN", 0)

(* a comparison that is off by one: a >= b *)
GreaterOrEqual(a, b) ==
    /\ ToNumber(a).t = "number" /\ ToNumber(b).t = "number"
    /\ ToNumber(a).v >= ToNumber(b).v

(* a > b on numbers; false when either side is NaN *)
GreaterThan(a, b) ==
    /\ ToNumber(a).t = "number" /\ ToNumber(b).t = "number"
    /\ ToNumber(a).v > ToNumber(b).v

(* v === f *)
StrictEquals(a, b) == a.t # "NaN" /\ a = b

(* val as a property name, in known[val]: a number is its numeral (the     *)
(* integer n stands for the name "n", as in the keys of a collection),     *)
(* every other name has a negative code.  Every plain object has the name  *)
(* "[object Object]".                                                      *)
PropertyKey(val) ==
    CASE val.t = "number"    -> val.v
      [] val.t = "boolean"   -> IF val.v = 1 THEN -1 ELSE -2    \* "true", "false"
      [] val.t = "undefined" -> -3
      [] val.t = "null"      -> -4
      [] val.t = "NaN"       -> -5
      [] val.t = "object"    -> -6
      [] OTHER               -> -7 - val.v      \* a function: its source text

---------------------------------------------------------------------------
(* Sentinel protocol *)

FILTERED      == Mk("Filtered", 0)
FILTERED_REST == Mk("FilteredRest", 0)
FilteredUntil(offset) == Mk("FilteredUntil", offset)

(* FILTERED_UNTIL[offset] || (FILTERED_UNTIL[offset] = new ...): the cache *)
(* returns an object with the same offset, which is all a value carries.   *)
filteredUntil(offset) == FilteredUntil(offset)

(* an isFiltered that does not know FilteredRest *)
isFilteredOne(val) == val.t \in {"Filtered", "FilteredUntil"}

(* val instanceof Filtered: the three classes share the prototype chain *)
isFiltered(val) == val.t \in {"Filtered", "FilteredRest", "FilteredUntil"}

nextIndex(val, index, length) ==
    CASE val.t = "Filtered"      -> index + 1
      [] val.t = "FilteredRest"  -> length
      [] val.t = "FilteredUntil" -> val.v

---------------------------------------------------------------------------
(* Function objects, Wrapper objects and the machine state *)

(* A function object: what its body is (kind), the variables its closure   *)
(* captured, and the two hook properties.  A hook value is << >> when the  *)
(* property is not a function, otherwise the sequence of primitive steps   *)
(* that calling it performs.                                               *)
NewFn == [kind        |-> "user",
          name        |-> "",          \* user function: which one
          f           |-> UNDEFINED,   \* captured f
          asVal       |-> FALSE,       \* captured asVal
          onFiltered  |-> UNDEFINED,   \* captured onFiltered
          mappers     |-> << >>,       \* captured mappers (pipe)
          statefulOps |-> << >>,       \* captured statefulOps (pipe)
          count       |-> UNDEFINED,   \* captured count (skip)
          skipNext    |-> UNDEFINED,   \* closure variable skipNext (skip)
          size        |-> UNDEFINED,   \* captured size (limit)
          cur         |-> UNDEFINED,   \* closure variable cur (limit)
          take        |-> UNDEFINED,   \* closure variable take (takeFrom)
          known       |-> UNDEFINED,   \* closure variable known (uniq)
          reset       |-> << >>,       \* captured reset (resettable)
          toBeReset   |-> UNDEFINED,   \* closure variable toBeReset (resettable)
          setup       |-> << >>,
          teardown    |-> << >>]

NewWrapper == [_pipe |-> NULL, _wrapped |-> UNDEFINED]

(* The mutable part of the program that library code reads and writes.     *)
(* Every operator that models library code takes it and returns it.        *)
MS(h, w, l) == [heap |-> h, wrappers |-> w, log |-> l]

Ret(ms, out) == [ms |-> ms, out |-> out]

Ev(e, id, args) == [e |-> e, id |-> id, args |-> args]

Logged(ms, ev) == [ms EXCEPT !.log = Append(@, ev)]

(* new function object: its address is the next free index *)
Alloc(ms, fobj) ==
    Ret([ms EXCEPT !.heap = Append(@, fobj)], Fn(Len(ms.heap) + 1))

isFn(f) == f.t = "function"

(* f.setup / f.teardown read as a property of any value *)
SetupOf(ms, f)    == IF isFn(f) THEN ms.heap[f.v].setup ELSE << >>
TeardownOf(ms, f) == IF isFn(f) THEN ms.heap[f.v].teardown ELSE << >>

(* elements of an array value as a sequence (arguments list) *)
ArrToSeq(a) == [j \in 1..Length(a) |-> Get(a, j - 1)]

---------------------------------------------------------------------------
(* Functions supplied by the client *)

Plus(a, b) ==
    IF a.t = "number" /\ b.t = "number" THEN Num(a.v + b.v) ELSE NAN

(* the library's own reducers *)
add(a, b) == Plus(a, b)

increment(a) == Plus(a, Num(1))

(* A client callback, called with args = <<a1, a2, a3, a4>>.               *)
(*   mappers / predicates are called with (value, key, collection)         *)
(*   reducers with (accumulator, value, key, collection)                   *)
UserCall(name, args) ==
    LET v == args[1]
        k == args[2]
    IN CASE name = "times2"   -> Plus(ToNumber(v), ToNumber(v))    \* x => 2 * x
         [] name = "odd"      -> IF ToNumber(v).t = "number"    \* x => x % 2 !== 0
                                 THEN Bool(ToNumber(v).v % 2 # 0) ELSE Bool(TRUE)
         [] name = "lt2"      -> Bool(v.t = "number" /\ v.v < 2)    \* x => x < 2
         [] name = "keyPlus"  -> Plus(Plus(v, v), Plus(k, k))  \* (x, k) => 2*x + 2*k
         [] name = "boom"     -> IF v = Num(2) THEN THROWN ELSE v
                                 \* x => { if (x === 2) throw e; return x }
         [] name = "add"      -> Plus(args[1], args[2])      \* (a, b) => a + b
         [] name = "addNot2"  -> IF args[2] = Num(2) THEN FILTERED
                                 ELSE Plus(args[1], args[2])
                                 \* (a, b) => b === 2 ? it.filter(0)(1) : a + b
         [] name = "addTo2"   -> IF args[2] = Num(2) THEN FILTERED_REST
                                 ELSE Plus(args[1], args[2])
                                 \* (a, b) => b === 2 ? it.takeWhile(0)(1) : a + b
         [] OTHER             -> UNDEFINED

---------------------------------------------------------------------------
(* Hooks *)

Prim(h, id) == [h |-> h, id |-> id]

(* uniq: constant = type !== "function" && type !== "undefined" *)
UniqConstant(f) == f.t \notin {"function", "undefined"}

(* toFn applied to a hook argument *)
toFn(hook) == hook

composeHooks(oldHook, newHook) ==
    IF      oldHook = << >> /\ newHook # << >> THEN newHook
    ELSE IF newHook = << >> /\ oldHook # << >> THEN oldHook
    ELSE IF oldHook # << >> /\ newHook # << >> THEN oldHook \o newHook
    ELSE << >>

RECURSIVE RunHook(_, _), ForEachState(_, _, _), setupState(_, _),
          teardownState(_, _)

(* calling a hook function: its primitive steps in order *)
RunHook(ms, hook) ==
    IF hook = << >> THEN ms
    ELSE LET p   == Head(hook)
             fo  == ms.heap[p.id]
             ms0 == Logged(ms, Ev(p.h, p.id, << >>))
             ms1 ==
               CASE p.h = "user" ->          \* a callback of the client
                      ms0
                 [] p.h = "skipSetup" ->       \* skipNext = !!count
                      [ms0 EXCEPT !.heap[p.id].skipNext = Bool(Truthy(fo.count))]
                 [] p.h = "limitSetup" ->      \* cur = 0
                      [ms0 EXCEPT !.heap[p.id].cur = Num(0)]
                 [] p.h = "takeFromSetup" ->   \* take = false
                      [ms0 EXCEPT !.heap[p.id].take = Bool(FALSE)]
                 [] p.h = "uniqSetup" ->       \* known = constant ? false : {}
                      [ms0 EXCEPT !.heap[p.id].known =
                           IF UniqConstant(fo.f) THEN Bool(FALSE) ELSE Obj(NoElems)]
                 [] p.h = "uniqTeardown" ->    \* known = null
                      [ms0 EXCEPT !.heap[p.id].known = NULL]
                 [] p.h = "resettableSetup" -> \* if (toBeReset) reset()
                      IF Truthy(fo.toBeReset) THEN RunHook(ms0, fo.reset) ELSE ms0
                 [] p.h = "resettableTeardown" ->   \* toBeReset = true
                      [ms0 EXCEPT !.heap[p.id].toBeReset = Bool(TRUE)]
                 [] p.h = "pipeSetup" ->       \* statefulOps.forEach(setupState)
                      ForEachState(ms0, fo.statefulOps, TRUE)
                 [] p.h = "pipeTeardown" ->    \* statefulOps.forEach(teardownState)
                      ForEachState(ms0, fo.statefulOps, FALSE)
         IN  RunHook(ms1, Tail(hook))

ForEachState(ms, ops, isSetup) ==
    IF ops = << >> THEN ms
    ELSE ForEachState(IF isSetup THEN setupState(ms, Head(ops))
                                 ELSE teardownState(ms, Head(ops)),
                      Tail(ops), isSetup)

setupState(ms, f) ==
    IF Truthy(f) /\ SetupOf(ms, f) # << >>
    THEN RunHook(Logged(ms, Ev("setup", f.v, << >>)), SetupOf(ms, f))
    ELSE ms

(* a teardownState that hands the function to its own hook *)
teardownStateWithArg(ms, f) ==
    IF Truthy(f) /\ TeardownOf(ms, f) # << >>
    THEN RunHook(Logged(ms, Ev("teardown", f.v, <<f>>)), TeardownOf(ms, f))
    ELSE ms

(* a teardownState that forgets to call the hook *)
teardownStateSkipped(ms, f) == ms

teardownState(ms, f) ==
    IF Truthy(f) /\ TeardownOf(ms, f) # << >>
    THEN RunHook(Logged(ms, Ev("teardown", f.v, << >>)), TeardownOf(ms, f))
    ELSE ms

---------------------------------------------------------------------------
(* Calling function objects; pipe, stateful, the Wrapper accessor *)

(* x, then K on what x returned; an exception thrown in x ends the         *)
(* sequence                                                                *)
Bind(x, K(_)) == IF x.out = THROWN THEN x ELSE K(x)

RECURSIVE Apply(_, _, _), Call(_, _, _, _), applyMap(_, _, _, _, _),
          PipedLoopThrough(_, _, _, _, _, _), getForgetful(_, _),
          filterImpl(_, _, _, _, _, _), PipedLoop(_, _, _, _, _, _),
          unwrap(_, _), get(_, _), pipe(_, _), WithHooks(_, _),
          stateful(_, _, _, _, _), copyHooks(_, _, _)

(* applyMap(mapper, v, k, o) *)
applyMap(ms, mapper, v, k, o) ==
    IF mapper.t = "undefined" THEN Ret(ms, v)
    ELSE IF isFn(mapper) THEN Apply(ms, mapper, <<v, k, o, UNDEFINED>>)
    ELSE Ret(ms, mapper)

(* a filterImpl that calls f whatever asVal says *)
filterImplCalling(ms, f, v, k, o, asVal) == applyMap(ms, f, v, k, o)

(* filterImpl(f, v, k, o, asVal) *)
filterImpl(ms, f, v, k, o, asVal) ==
    IF asVal THEN Ret(ms, Bool(StrictEquals(v, f)))
    ELSE applyMap(ms, f, v, k, o)

(* a loop of the piped function that does not test isFiltered(res) *)
PipedLoopThrough(ms, mappers, idx, val, k, o) ==
    IF ~(idx < Len(mappers)) THEN Ret(ms, val)
    ELSE Bind(unwrap(ms, mappers[idx + 1]), LAMBDA u :
         Bind(applyMap(u.ms, u.out, val, k, o), LAMBDA x :
         PipedLoopThrough(x.ms, mappers, idx + 1, x.out, k, o)))

(* the body of the function returned by pipe: the for loop from index idx  *)
PipedLoop(ms, mappers, idx, val, k, o) ==
    IF isFiltered(val) \/ ~(idx < Len(mappers)) THEN Ret(ms, val)
    ELSE Bind(unwrap(ms, mappers[idx + 1]), LAMBDA u :
         Bind(applyMap(u.ms, u.out, val, k, o), LAMBDA x :
         PipedLoop(x.ms, mappers, idx + 1, x.out, k, o)))

(* the rest of deduplicatingMapper, of the uniq function at address a,     *)
(* after val has been computed:                                            *)
(*   if (constant ? known : known[val])                                    *)
(*       v = constant ? FILTERED_REST : FILTERED;                          *)
(*   else if (constant) known = true; else known[val] = true;              *)
(*   return v;                                                             *)
(* (reading a property of null raises a TypeError)                         *)
Deduplicate(ms, a, known, val, v) ==
    IF UniqConstant(ms.heap[a].f)
    THEN IF Truthy(known) THEN Ret(ms, FILTERED_REST)
         ELSE Ret([ms EXCEPT !.heap[a].known = Bool(TRUE)], v)
    ELSE IF known.t \in {"null", "undefined"} THEN Ret(ms, THROWN)
    ELSE IF Truthy(Get(known, PropertyKey(val))) THEN Ret(ms, FILTERED)
    ELSE Ret([ms EXCEPT !.heap[a].known = Put(known, PropertyKey(val), Bool(TRUE))],
             v)

(* the body of the function object fo at address a, called with args *)
Call(ms, a, fo, args) ==
    CASE fo.kind = "user" ->
           Ret(ms, UserCall(fo.name, args))
      [] fo.kind = "add" ->
           Ret(ms, add(args[1], args[2]))
      [] fo.kind = "increment" ->
           Ret(ms, increment(args[1]))
      [] fo.kind = "filterImpl" ->
           \* return filterImpl(f, v, k, o, asVal) ? v : onFiltered;
           Bind(filterImpl(ms, fo.f, args[1], args[2], args[3], fo.asVal),
                LAMBDA p : Ret(p.ms, IF Truthy(p.out) THEN args[1]
                                                      ELSE fo.onFiltered))
      [] fo.kind = "skip" ->
           \* var changeOffset = skipNext; skipNext = false;
           \* return changeOffset ? filteredUntil(count) : v;
           Ret([ms EXCEPT !.heap[a].skipNext = Bool(FALSE)],
               IF Truthy(fo.skipNext) THEN filteredUntil(fo.count.v)
                                      ELSE args[1])
      [] fo.kind = "takeFrom" ->
           \* if (!take && filterImpl(f, v, k, o, asVal)) take = true;
           \* return take ? v : FILTERED;
           IF Truthy(fo.take) THEN Ret(ms, args[1])
           ELSE Bind(filterImpl(ms, fo.f, args[1], args[2], args[3], fo.asVal),
                     LAMBDA p :
                       IF Truthy(p.out)
                       THEN Ret([p.ms EXCEPT !.heap[a].take = Bool(TRUE)], args[1])
                       ELSE Ret(p.ms, FILTERED))
      [] fo.kind = "takeUntil" ->
           \* return filterImpl(f, v, k, o, asVal) ? FILTERED_REST : v;
           Bind(filterImpl(ms, fo.f, args[1], args[2], args[3], fo.asVal),
                LAMBDA p : Ret(p.ms, IF Truthy(p.out) THEN FILTERED_REST
                                                      ELSE args[1]))
      [] fo.kind = "limit" ->
           \* return ++cur > size ? FILTERED_REST : v
           Ret([ms EXCEPT !.heap[a].cur = PreIncrement(fo.cur)],
               IF GreaterThan(PreIncrement(fo.cur), fo.size) THEN FILTERED_REST
                                                          ELSE args[1])
      [] fo.kind = "uniq" ->
           \* var val = applyMap(f, v, k, o); ...
           Bind(applyMap(ms, fo.f, args[1], args[2], args[3]),
                LAMBDA x : Deduplicate(x.ms, a, x.ms.heap[a].known, x.out, args[1]))
      [] fo.kind = "pipe" ->
           PipedLoop(ms, fo.mappers, 0, args[1], args[2], args[3])
      [] fo.kind = "negation" ->      \* a closure of the client
           \* (v, k, o) => !f(v, k, o)
           Bind(Apply(ms, fo.f, <<args[1], args[2], args[3], UNDEFINED>>),
                LAMBDA p : Ret(p.ms, Bool(~Truthy(p.out))))
      [] fo.kind = "stateful" ->
           \* return o ? f(optRes, v, k, o) : f(optRes, v, k);
           Apply(ms, fo.f, IF Truthy(args[4]) THEN args
                           ELSE <<args[1], args[2], args[3], UNDEFINED>>)

(* the return of the call of the function at address a, recorded *)
Return(a, x) == Ret(Logged(x.ms, Ev("ret", a, <<x.out>>)), x.out)

(* fnv(args[1], args[2], args[3], args[4]); a call of something that is    *)
(* not a function raises a TypeError                                       *)
Apply(ms, fnv, args) ==
    IF ~isFn(fnv) THEN Ret(ms, THROWN)
    ELSE Return(fnv.v, Call(Logged(ms, Ev("call", fnv.v, args)), fnv.v,
                            ms.heap[fnv.v], args))

(* applyReduce(reduce, res, v, k, o) *)
applyReduce(ms, reduce, acc, v, k, o) ==
    IF reduce.t = "undefined" THEN Ret(ms, v)
    ELSE IF isFn(reduce) THEN Apply(ms, reduce, <<acc, v, k, o>>)
    ELSE Ret(ms, reduce)

(* unwrap(f) *)
unwrap(ms, f) == IF f.t = "wrapper" THEN get(ms, f.v) ELSE Ret(ms, f)

(* a get that does not keep the function it compiled *)
getForgetful(ms, w) ==
    Bind(IF ~Truthy(ms.wrappers[w]._wrapped)
         THEN pipe(ms, <<ms.wrappers[w]._pipe>>)
         ELSE Ret(ms, ms.wrappers[w]._wrapped),
         LAMBDA p : Ret([p.ms EXCEPT !.wrappers[w]._pipe = NULL], p.out))

(* Wrapper.prototype.get *)
get(ms, w) ==
    Bind(IF ~Truthy(ms.wrappers[w]._wrapped)
         THEN pipe(ms, <<ms.wrappers[w]._pipe>>)
         ELSE Ret(ms, ms.wrappers[w]._wrapped),
         LAMBDA p :
           Ret([p.ms EXCEPT !.wrappers[w] = [_pipe |-> NULL, _wrapped |-> p.out]],
               p.out))

(* the scan of pipe for members that carry hooks: the for loop from index  *)
(* idx with the locals statefulOps (<< >> is null) and multiple            *)
RECURSIVE ScanStateful(_, _, _, _, _)
ScanStateful(ms, mappers, idx, statefulOps, multiple) ==
    IF ~(idx < Len(mappers))
    THEN [statefulOps |-> statefulOps, multiple |-> multiple]
    ELSE LET op == mappers[idx + 1]
         IN  IF isFn(op) /\ (SetupOf(ms, op) # << >> \/ TeardownOf(ms, op) # << >>)
             THEN IF statefulOps = << >>
                  THEN ScanStateful(ms, mappers, idx + 1, <<op>>, multiple)
                  ELSE IF multiple
                  THEN ScanStateful(ms, mappers, idx + 1,
                                    Append(statefulOps, op), multiple)
                  ELSE ScanStateful(ms, mappers, idx + 1,
                                    <<statefulOps[1], op>>, TRUE)
             ELSE ScanStateful(ms, mappers, idx + 1, statefulOps, multiple)

(* the end of pipe: al is the new piped function, scan the outcome of the  *)
(* scan; if (statefulOps) piped = !multiple ? copyHooks(..) : stateful(..) *)
WithHooks(al, scan) ==
    IF scan.statefulOps = << >> THEN al
    ELSE IF ~scan.multiple
    THEN copyHooks(al.ms, al.out, scan.statefulOps[1])
    ELSE stateful([al.ms EXCEPT !.heap[al.out.v].statefulOps = scan.statefulOps],
                  al.out,
                  <<Prim("pipeSetup", al.out.v)>>,
                  <<Prim("pipeTeardown", al.out.v)>>,
                  UNDEFINED)

(* a pipe that builds a piped function also around a single mapper *)
pipeAlways(ms, arguments) ==
    LET mappers == IF Len(arguments) = 1 /\ IsArray(arguments[1])
                   THEN ArrToSeq(arguments[1]) ELSE arguments
    IN  IF Len(mappers) > 0
        THEN WithHooks(Alloc(ms, [NewFn EXCEPT !.kind = "pipe",
                                               !.mappers = mappers]),
                       ScanStateful(ms, mappers, 0, << >>, FALSE))
        ELSE Ret(ms, UNDEFINED)

(* pipe(args): arguments is the argument list of the call *)
pipe(ms, arguments) ==
    LET mappers == IF Len(arguments) = 1 /\ IsArray(arguments[1])
                   THEN ArrToSeq(arguments[1]) ELSE arguments
    IN  IF Len(mappers) > 0
        THEN IF Len(mappers) = 1 THEN unwrap(ms, mappers[1])
             ELSE WithHooks(Alloc(ms, [NewFn EXCEPT !.kind = "pipe",
                                                    !.mappers = mappers]),
                            ScanStateful(ms, mappers, 0, << >>, FALSE))
        ELSE Ret(ms, UNDEFINED)

(* a copyHooks that copies nothing *)
copyHooksNone(ms, dst, src) == Ret(ms, dst)

(* copyHooks(dst, src) *)
copyHooks(ms, dst, src) ==
    IF Truthy(src)
    THEN stateful(ms, dst, SetupOf(ms, src), TeardownOf(ms, src), Bool(TRUE))
    ELSE Ret(ms, dst)

(* the assignments at the end of stateful: x.out is res;                   *)
(*   if (newSetup) res.setup = composeHooks(oldSetup, newSetup);           *)
(*   if (newTeardown) res.teardown = composeHooks(oldTeardown, newTeardown)*)
(* (in strict mode, creating a property on a primitive raises a TypeError) *)
SetHooks(x, oldSetup, oldTeardown, newSetup, newTeardown) ==
    IF newSetup = << >> /\ newTeardown = << >> THEN x
    ELSE IF ~isFn(x.out) THEN Ret(x.ms, THROWN)
    ELSE Ret([x.ms EXCEPT !.heap[x.out.v] =
                [@ EXCEPT !.setup = IF newSetup # << >>
                                    THEN composeHooks(oldSetup, newSetup) ELSE @,
                          !.teardown = IF newTeardown # << >>
                                       THEN composeHooks(oldTeardown, newTeardown)
                                       ELSE @]],
             x.out)

(* stateful(fn, setup, teardown, nowrap).  Reading f.setup of undefined or *)
(* null raises a TypeError.                                                *)
stateful(ms, fn, setup, teardown, nowrap) ==
    Bind(unwrap(ms, fn), LAMBDA u :
      IF u.out.t \in {"undefined", "null"} THEN Ret(u.ms, THROWN)
      ELSE SetHooks(IF Truthy(nowrap) \/ ~(toFn(setup) # << >> \/ toFn(teardown) # << >>)
                    THEN u
                    ELSE Alloc(u.ms, [NewFn EXCEPT !.kind = "stateful",
                                                   !.f = u.out]),
                    toFn(SetupOf(u.ms, u.out)), toFn(TeardownOf(u.ms, u.out)),
                    toFn(setup), toFn(teardown)))

(* createFilterImpl(filter, onFiltered) *)
createFilterImpl(ms, flt, onFiltered) ==
    Bind(unwrap(ms, flt), LAMBDA u :
    Bind(Alloc(u.ms, [NewFn EXCEPT !.kind = "filterImpl", !.f = u.out,
                                   !.asVal = ~isFn(u.out),
                                   !.onFiltered = onFiltered]), LAMBDA al :
    copyHooks(al.ms, al.out, u.out)))

filter(ms, flt) == createFilterImpl(ms, flt, FILTERED)

(* a takeWhile that rejects single items *)
takeWhileFiltering(ms, flt) == createFilterImpl(ms, flt, FILTERED)

takeWhile(ms, flt) == createFilterImpl(ms, flt, FILTERED_REST)

(* skip(count) *)
skip(ms, count) ==
    Bind(Alloc(ms, [NewFn EXCEPT !.kind = "skip", !.count = count]), LAMBDA al :
    stateful(al.ms, al.out, <<Prim("skipSetup", al.out.v)>>, << >>, Bool(TRUE)))

(* takeFrom(filter); "also keep hooks of f" *)
takeFrom(ms, flt) ==
    Bind(unwrap(ms, flt), LAMBDA u :
    Bind(Alloc(u.ms, [NewFn EXCEPT !.kind = "takeFrom", !.f = u.out,
                                   !.asVal = ~isFn(u.out)]), LAMBDA al :
    Bind(copyHooks(al.ms, al.out, u.out), LAMBDA c :
    stateful(c.ms, c.out, <<Prim("takeFromSetup", al.out.v)>>, << >>, UNDEFINED))))

(* a takeUntil that goes on while items pass, as takeWhile does *)
takeUntilPassing(ms, flt) == createFilterImpl(ms, flt, FILTERED_REST)

(* takeUntil(filter) *)
takeUntil(ms, flt) ==
    Bind(unwrap(ms, flt), LAMBDA u :
    Bind(Alloc(u.ms, [NewFn EXCEPT !.kind = "takeUntil", !.f = u.out,
                                   !.asVal = ~isFn(u.out)]), LAMBDA al :
    copyHooks(al.ms, al.out, u.out)))

(* a limit whose counter starts at construction and has no setup hook *)
limitOnce(ms, size) ==
    Alloc(ms, [NewFn EXCEPT !.kind = "limit", !.size = size, !.cur = Num(0)])

(* limit(size) *)
limit(ms, size) ==
    Bind(Alloc(ms, [NewFn EXCEPT !.kind = "limit", !.size = size]), LAMBDA al :
    stateful(al.ms, al.out, <<Prim("limitSetup", al.out.v)>>, << >>, Bool(TRUE)))

(* a uniq that attaches no hooks of its own *)
uniqNoHooks(ms, mapper) ==
    Bind(unwrap(ms, mapper), LAMBDA u :
    Bind(Alloc(u.ms, [NewFn EXCEPT !.kind = "uniq", !.f = u.out,
                         !.known = IF UniqConstant(u.out) THEN Bool(FALSE)
                                                         ELSE Obj(NoElems)]),
         LAMBDA al : copyHooks(al.ms, al.out, u.out)))

(* uniq(mapper); "also keep hooks of f" *)
uniq(ms, mapper) ==
    Bind(unwrap(ms, mapper), LAMBDA u :
    Bind(Alloc(u.ms, [NewFn EXCEPT !.kind = "uniq", !.f = u.out,
                         !.known = IF UniqConstant(u.out) THEN Bool(FALSE)
                                                         ELSE Obj(NoElems)]),
         LAMBDA al :
    Bind(copyHooks(al.ms, al.out, u.out), LAMBDA c :
    stateful(c.ms, c.out, <<Prim("uniqSetup", al.out.v)>>,
             <<Prim("uniqTeardown", al.out.v)>>, Bool(TRUE)))))

(* a resettable whose toBeReset starts true *)
resettableEager(ms, f, reset, nowrap) ==
    IF reset # << >>
    THEN Bind(Alloc(ms, [NewFn EXCEPT !.kind = "resettable", !.reset = reset,
                                      !.toBeReset = Bool(TRUE)]), LAMBDA cell :
         stateful(cell.ms, f, <<Prim("resettableSetup", cell.out.v)>>,
                  <<Prim("resettableTeardown", cell.out.v)>>, nowrap))
    ELSE Ret(ms, f)

(* resettable(f, reset, nowrap): the variable toBeReset, shared by the two *)
(* hooks, lives in a heap cell of its own                                  *)
resettable(ms, f, reset, nowrap) ==
    IF reset # << >>
    THEN Bind(Alloc(ms, [NewFn EXCEPT !.kind = "resettable", !.reset = reset,
                                      !.toBeReset = Bool(FALSE)]), LAMBDA cell :
         stateful(cell.ms, f, <<Prim("resettableSetup", cell.out.v)>>,
                  <<Prim("resettableTeardown", cell.out.v)>>, nowrap))
    ELSE Ret(ms, f)

(* it(mapper): new Wrapper(mapper) *)
it(ms, mapper) ==
    Bind(unwrap(ms, mapper), LAMBDA u :
    Ret([u.ms EXCEPT !.wrappers =
            Append(@, [_pipe |-> NULL, _wrapped |-> u.out])],
        Wr(Len(u.ms.wrappers) + 1)))

(* this._pipe.push(...xs) *)
RECURSIVE Push(_, _)
Push(a, xs) ==
    IF xs = << >> THEN a ELSE Push(Put(a, Length(a), Head(xs)), Tail(xs))

(* checkNewPipe(wrapper) *)
checkNewPipe(ms, w) ==
    IF ~Truthy(ms.wrappers[w]._pipe)
    THEN [ms EXCEPT !.wrappers[w] =
            [_pipe |-> Arr([j \in {0} |-> ms.wrappers[w]._wrapped]),
             _wrapped |-> NULL]]
    ELSE ms

(* the function f that pipeMethod(f) was given, applied to mapper *)
Construct(ms, f, mapper) ==
    CASE f = "filter"    -> filter(ms, mapper)
      [] f = "takeFrom"  -> takeFrom(ms, mapper)
      [] f = "takeWhile" -> takeWhile(ms, mapper)
      [] f = "takeUntil" -> takeUntil(ms, mapper)
      [] f = "skip"      -> skip(ms, mapper)
      [] f = "limit"     -> limit(ms, mapper)
      [] f = "uniq"      -> uniq(ms, mapper)

(* pipeMethod(f), called on wrapper w with mapper *)
pipeMethod(ms, f, w, mapper) ==
    Bind(Construct(checkNewPipe(ms, w), f, mapper), LAMBDA x :
         Ret([x.ms EXCEPT !.wrappers[w]._pipe = Push(@, <<x.out>>)], Wr(w)))


(* Wrapper.prototype.pipe, called on wrapper w with the argument list      *)
(* arguments                                                               *)
Wrapper_pipe(ms, w, arguments) ==
    LET mappers == IF Len(arguments) = 1 /\ IsArray(arguments[1])
                   THEN ArrToSeq(arguments[1]) ELSE arguments
    IN  Ret([checkNewPipe(ms, w) EXCEPT !.wrappers[w]._pipe = Push(@, mappers)],
            Wr(w))

(* if (nowrap === undefined) nowrap = !this._wrapped *)
NowrapOf(ms, w, nowrap) ==
    IF nowrap = UNDEFINED THEN Bool(~Truthy(ms.wrappers[w]._wrapped)) ELSE nowrap

(* Wrapper.prototype.stateful *)
Wrapper_stateful(ms, w, setup, teardown, nowrap) ==
    Bind(get(ms, w), LAMBDA g :
    Bind(stateful(g.ms, g.out, setup, teardown, NowrapOf(ms, w, nowrap)),
         LAMBDA x : Ret(x.ms, Wr(w))))

(* Wrapper.prototype.resettable *)
Wrapper_resettable(ms, w, reset, nowrap) ==
    Bind(get(ms, w), LAMBDA g :
    Bind(resettable(g.ms, g.out, reset, NowrapOf(ms, w, nowrap)),
         LAMBDA x : Ret(x.ms, Wr(w))))

(* a terminal method that adds the mapper to the pipe of the wrapper *)
terminalMapperPushed(ms, w, ignoreMapper, mapper) ==
    IF ~ignoreMapper /\ mapper # UNDEFINED
    THEN get(Wrapper_pipe(ms, w, <<mapper>>).ms, w)
    ELSE get(ms, w)

(* terminalMethod(f, ignoreMapper), called on wrapper w: the mapper m that *)
(* f is called with                                                        *)
terminalMapper(ms, w, ignoreMapper, mapper) ==
    Bind(get(ms, w), LAMBDA g :
         IF ~ignoreMapper /\ mapper # UNDEFINED
         THEN pipe(g.ms, <<g.out, mapper>>)
         ELSE g)

(* f.length of the functions given to terminalMethod *)
FunctionLength(f) == IF f = "mapReduce" THEN 4 ELSE 2

---------------------------------------------------------------------------
(* The client program *)

(* One library call.  Operands are values, or refer to the value returned  *)
(* by an earlier call (t = "reg") or to the input collection ("input").    *)
(*   filter / takeWhile / skip / it : a = the argument                     *)
(*   pipe                           : args = the arguments                 *)
(*   takeFrom / takeUntil / limit / uniq : a = the argument                *)
(*   stateful : a = fn, b = setup, d = teardown (number of a client        *)
(*              callback, or undefined), e = nowrap                        *)
(*   resettable : a = f, b = reset (number of a client callback), e =      *)
(*              nowrap                                                     *)
(*   mapReduce: a = coll, b = mapper, d = reducer, e = res, n = number of  *)
(*              arguments passed; map, forEach, sum, count: a, b;          *)
(*              reduce: a = coll, d = reducer, e = res, n                  *)
Ins(op, a, b, d, e, n, args) ==
    [op |-> op, a |-> a, b |-> b, d |-> d, e |-> e, n |-> n, args |-> args]

Reg(j) == Mk("reg", j)
INPUT  == Mk("input", 0)

Resolve(x) ==
    IF x.t = "reg" THEN regs[x.v] ELSE IF x.t = "input" THEN input ELSE x

(* a client callback passed as a hook: function () { trace(n) } *)
UserHook(x) == IF x.t = "number" THEN <<Prim("user", x.v)>> ELSE << >>

(* functions that exist before the program starts *)
FnNames == <<"add", "increment", "times2", "odd", "lt2", "keyPlus", "boom",
             "addNot2", "addTo2">>

F(name) == Fn(CHOOSE j \in 1..Len(FnNames) : FnNames[j] = name)

InitHeap ==
    [j \in 1..Len(FnNames) |->
        IF FnNames[j] \in {"add", "increment"}
        THEN [NewFn EXCEPT !.kind = FnNames[j]]
        ELSE [NewFn EXCEPT !.kind = "user", !.name = FnNames[j]]]

cur  == prog.code[ip]
ms_  == MS(heap, wrappers, log)
Idle == pc = "idle" /\ ip <= Len(prog.code)

(* the call returned out: the client stores it and goes on; an exception   *)
(* is caught by the client and stored in place of the result               *)
Returned(x) ==
    /\ heap' = x.ms.heap
    /\ wrappers' = x.ms.wrappers
    /\ log' = x.ms.log
    /\ regs' = Append(regs, x.out)
    /\ ip' = ip + 1
    /\ pc' = "idle"

CallFilter ==
    /\ Idle /\ cur.op = "filter"
    /\ Returned(filter(ms_, Resolve(cur.a)))
    /\ UNCHANGED <<prog, input, frame>>

CallTakeWhile ==
    /\ Idle /\ cur.op = "takeWhile"
    /\ Returned(takeWhile(ms_, Resolve(cur.a)))
    /\ UNCHANGED <<prog, input, frame>>

CallSkip ==
    /\ Idle /\ cur.op = "skip"
    /\ Returned(skip(ms_, Resolve(cur.a)))
    /\ UNCHANGED <<prog, input, frame>>

CallPipe ==
    /\ Idle /\ cur.op = "pipe"
    /\ Returned(pipe(ms_, [j \in 1..Len(cur.args) |-> Resolve(cur.args[j])]))
    /\ UNCHANGED <<prog, input, frame>>

CallStateful ==
    /\ Idle /\ cur.op = "stateful"
    /\ Returned(stateful(ms_, Resolve(cur.a), UserHook(cur.b), UserHook(cur.d),
                         cur.e))
    /\ UNCHANGED <<prog, input, frame>>

CallIt ==
    /\ Idle /\ cur.op = "it"
    /\ Returned(it(ms_, Resolve(cur.a)))
    /\ UNCHANGED <<prog, input, frame>>

CallTakeFrom ==
    /\ Idle /\ cur.op = "takeFrom"
    /\ Returned(takeFrom(ms_, Resolve(cur.a)))
    /\ UNCHANGED <<prog, input, frame>>

CallTakeUntil ==
    /\ Idle /\ cur.op = "takeUntil"
    /\ Returned(takeUntil(ms_, Resolve(cur.a)))
    /\ UNCHANGED <<prog, input, frame>>

(* the client makes the closure (v, k, o) => !f(v, k, o) *)
CallNegate ==
    /\ Idle /\ cur.op = "negate"
    /\ Returned(Alloc(ms_, [NewFn EXCEPT !.kind = "negation",
                                         !.f = Resolve(cur.a)]))
    /\ UNCHANGED <<prog, input, frame>>

CallLimit ==
    /\ Idle /\ cur.op = "limit"
    /\ Returned(limit(ms_, Resolve(cur.a)))
    /\ UNCHANGED <<prog, input, frame>>

CallUniq ==
    /\ Idle /\ cur.op = "uniq"
    /\ Returned(uniq(ms_, Resolve(cur.a)))
    /\ UNCHANGED <<prog, input, frame>>

CallResettable ==
    /\ Idle /\ cur.op = "resettable"
    /\ Returned(resettable(ms_, Resolve(cur.a), UserHook(cur.b), cur.e))
    /\ UNCHANGED <<prog, input, frame>>

(* the methods made with pipeMethod *)
PipeMethodOps == {"w.filter", "w.takeFrom", "w.takeWhile", "w.takeUntil",
                  "w.skip", "w.limit", "w.uniq"}

WrapperMethod(op) ==
    CASE op = "w.filter"    -> "filter"
      [] op = "w.takeFrom"  -> "takeFrom"
      [] op = "w.takeWhile" -> "takeWhile"
      [] op = "w.takeUntil" -> "takeUntil"
      [] op = "w.skip"      -> "skip"
      [] op = "w.limit"     -> "limit"
      [] op = "w.uniq"      -> "uniq"

(* the wrapper a method is called on *)
this == Resolve(cur.a).v

(* wrapper.filter(mapper), wrapper.skip(count), ... *)
CallPipeMethod ==
    /\ Idle /\ cur.op \in PipeMethodOps
    /\ Returned(pipeMethod(ms_, WrapperMethod(cur.op), this, Resolve(cur.b)))
    /\ UNCHANGED <<prog, input, frame>>

(* wrapper.pipe(...args) *)
CallWrapperPipe ==
    /\ Idle /\ cur.op = "w.pipe"
    /\ Returned(Wrapper_pipe(ms_, this,
                             [j \in 1..Len(cur.args) |-> Resolve(cur.args[j])]))
    /\ UNCHANGED <<prog, input, frame>>

(* wrapper.stateful(setup, teardown, nowrap) *)
CallWrapperStateful ==
    /\ Idle /\ cur.op = "w.stateful"
    /\ Returned(Wrapper_stateful(ms_, this, UserHook(cur.b), UserHook(cur.d),
                                 cur.e))
    /\ UNCHANGED <<prog, input, frame>>

(* wrapper.resettable(reset, nowrap) *)
CallWrapperResettable ==
    /\ Idle /\ cur.op = "w.resettable"
    /\ Returned(Wrapper_resettable(ms_, this, UserHook(cur.b), cur.e))
    /\ UNCHANGED <<prog, input, frame>>

(* wrapper.get() *)
CallGet ==
    /\ Idle /\ cur.op = "w.get"
    /\ Returned(get(ms_, this))
    /\ UNCHANGED <<prog, input, frame>>

---------------------------------------------------------------------------
(* mapReduce *)

(* a resIsFirst that is never set *)
resIsFirstNever(rv, nargs) == Bool(FALSE)

(* resIsFirst = r && arguments.length < 4 *)
resIsFirstOf(rv, nargs) == IF Truthy(rv) THEN Bool(nargs < 4) ELSE rv

(* mapReduce(coll, mapper, reducer, res) called with nargs arguments:      *)
(* everything up to the loop                                               *)
EnterMapReduceIn(ms, collArg, mapper, reducer, resArg, nargs) ==
    \E um \in {unwrap(ms, mapper)} :
    \E ur \in {unwrap(um.ms, reducer)} :
    \E s \in {setupState(setupState(ur.ms, um.out), ur.out)} :
    LET hasR == reducer.t # "undefined"
        isA  == IsArray(collArg)
        ar   == IF isA THEN collArg
                ELSE LET ks == ObjectKeys(collArg)
                     IN  Arr([j \in 0..(Len(ks) - 1) |-> Num(ks[j + 1])])
        res0 == IF nargs < 4 THEN UNDEFINED ELSE resArg
    IN  /\ coll' = collArg
        /\ m' = um.out
        /\ r' = ur.out
        /\ hasReducer' = hasR
        /\ isArr' = isA
        /\ arr' = ar
        /\ len' = Length(ar)
        /\ i' = 0
        /\ resI' = 0
        /\ resIsFirst' = resIsFirstOf(ur.out, nargs)
        /\ res' = IF ~hasR
                  THEN IF Truthy(res0)
                       THEN IF isA THEN Arr(NoElems) ELSE Obj(NoElems)
                       ELSE UNDEFINED
                  ELSE res0
        /\ heap' = s.heap
        /\ wrappers' = s.wrappers
        /\ log' = s.log
        /\ pc' = "loop"
        /\ UNCHANGED <<prog, input, ip, regs>>

(* mapReduce called by the client *)
EnterMapReduce(collArg, mapper, reducer, resArg, nargs) ==
    EnterMapReduceIn(MS(heap, wrappers, << >>), collArg, mapper, reducer,
                     resArg, nargs)

CallMapReduce ==
    /\ Idle /\ cur.op = "mapReduce"
    /\ EnterMapReduce(Resolve(cur.a), Resolve(cur.b), Resolve(cur.d),
                      Resolve(cur.e), cur.n)

(* forEach(coll, f): mapReduce(coll, f, undefined, false) *)
CallForEach ==
    /\ Idle /\ cur.op = "forEach"
    /\ EnterMapReduce(Resolve(cur.a), Resolve(cur.b), UNDEFINED, Bool(FALSE), 4)

(* map(coll, mapper): mapReduce(coll, mapper, undefined, true) *)
CallMap ==
    /\ Idle /\ cur.op = "map"
    /\ EnterMapReduce(Resolve(cur.a), Resolve(cur.b), UNDEFINED, Bool(TRUE), 4)

(* reduce(coll, reducer, res) called with cur.n arguments *)
CallReduce ==
    /\ Idle /\ cur.op = "reduce"
    /\ IF cur.n < 3
       THEN EnterMapReduce(Resolve(cur.a), UNDEFINED, Resolve(cur.d), UNDEFINED, 3)
       ELSE EnterMapReduce(Resolve(cur.a), UNDEFINED, Resolve(cur.d),
                           Resolve(cur.e), 4)

(* sum(coll, mapper): mapReduce(coll, mapper, add) *)
CallSum ==
    /\ Idle /\ cur.op = "sum"
    /\ EnterMapReduce(Resolve(cur.a), Resolve(cur.b), F("add"), UNDEFINED, 3)

(* count(coll, mapper) *)
CallCount ==
    /\ Idle /\ cur.op = "count"
    /\ LET c == Resolve(cur.a)
       IN  IF Resolve(cur.b).t # "undefined"
           THEN EnterMapReduce(c, Resolve(cur.b), F("increment"), Num(0), 4)
           ELSE /\ Returned(Ret(ms_, Num(IF IsArray(c) THEN Length(c)
                                         ELSE Len(ObjectKeys(c)))))
                /\ UNCHANGED <<prog, input, frame>>

(* the methods made with terminalMethod: the function f each was made     *)
(* with, and ignoreMapper                                                  *)
TerminalOps == {"w.forEach", "w.map", "w.reduce", "w.mapReduce", "w.sum"}

TerminalOf(op) ==
    CASE op = "w.forEach"   -> [f |-> "forEach",   ignoreMapper |-> FALSE]
      [] op = "w.map"       -> [f |-> "map",       ignoreMapper |-> FALSE]
      [] op = "w.reduce"    -> [f |-> "mapReduce", ignoreMapper |-> TRUE]
      [] op = "w.mapReduce" -> [f |-> "mapReduce", ignoreMapper |-> FALSE]
      [] op = "w.sum"       -> [f |-> "sum",       ignoreMapper |-> FALSE]

(* the k-th argument of the call, undefined when fewer were passed *)
Argument(k) == IF k <= Len(cur.args) THEN Resolve(cur.args[k]) ELSE UNDEFINED

(* f(coll, m, reducer, res) when four, f(coll, m, reducer) otherwise *)
EnterFunction(ms, f, collArg, mv, reducer, resArg, four) ==
    CASE f = "forEach"   -> EnterMapReduceIn(ms, collArg, mv, UNDEFINED, Bool(FALSE), 4)
      [] f = "map"       -> EnterMapReduceIn(ms, collArg, mv, UNDEFINED, Bool(TRUE), 4)
      [] f = "sum"       -> EnterMapReduceIn(ms, collArg, mv, F("add"), UNDEFINED, 3)
      [] f = "mapReduce" -> IF four
                            THEN EnterMapReduceIn(ms, collArg, mv, reducer, resArg, 4)
                            ELSE EnterMapReduceIn(ms, collArg, mv, reducer, UNDEFINED, 3)

(* wrapper.map(coll, mapper), wrapper.reduce(coll, reducer, res), ...:     *)
(* args is the argument list of the call                                   *)
CallTerminalMethod ==
    /\ Idle /\ cur.op \in TerminalOps
    /\ LET t       == TerminalOf(cur.op)
           reducer == IF t.ignoreMapper THEN Argument(2) ELSE Argument(3)
           resArg  == IF t.ignoreMapper THEN Argument(3) ELSE Argument(4)
           length  == IF t.ignoreMapper THEN Len(cur.args) - 1 ELSE Len(cur.args)
       IN  \E x \in {terminalMapper(MS(heap, wrappers, << >>), this,
                                    t.ignoreMapper, Argument(2))} :
             IF x.out = THROWN
             THEN /\ Returned(x)
                  /\ UNCHANGED <<prog, input, frame>>
             ELSE EnterFunction(x.ms, t.f, Argument(1), x.out, reducer, resArg,
                                length >= FunctionLength(t.f))

(* a resKey that is the source key for sequences too *)
resKeyOfSource(isA, ri, key) == key

(* the collection as the callbacks receive it: a reference to coll *)
COLL == Mk("collection", 0)

(* resKey = isArr ? resI : key *)
resKeyOf(isA, ri, key) == IF isA THEN ri ELSE key

(* the value the mapper returned for position p, recorded *)
MappedAt(p, x) == Ret(Logged(x.ms, Ev("mapped", p, <<x.out>>)), x.out)

(* one iteration of the while loop; an exception thrown by a callback      *)
(* leaves mapReduce at once                                                *)
LoopStep ==
    /\ pc = "loop" /\ i < len
    /\ LET key    == IF isArr THEN i ELSE Get(arr, i).v
           resKey == resKeyOf(isArr, resI, key)
       IN
       \E mp \in {MappedAt(i, applyMap(Logged(ms_, Ev("pos", i, << >>)), m,
                                       Get(coll, key), Num(resKey), COLL))} :
       \E rd \in {IF mp.out # THROWN /\ ~isFiltered(mp.out) /\ hasReducer
                        /\ ~Truthy(resIsFirst)
                  THEN applyReduce(mp.ms, r, res, mp.out, Num(resKey), COLL)
                  ELSE mp} :
          IF rd.out = THROWN
          THEN /\ Returned(rd)
               /\ UNCHANGED <<prog, input, frame>>
          ELSE /\ heap' = rd.ms.heap
               /\ wrappers' = rd.ms.wrappers
               /\ log' = rd.ms.log
               /\ IF isFiltered(rd.out)
                  THEN /\ i' = nextIndex(rd.out, i, len)
                       /\ UNCHANGED <<resI, resIsFirst, res>>
                  ELSE /\ i' = i + 1
                       /\ resI' = IF isArr THEN resI + 1 ELSE resI
                       /\ resIsFirst' = IF Truthy(resIsFirst) THEN Bool(FALSE)
                                                              ELSE resIsFirst
                       /\ res' = IF hasReducer THEN rd.out
                                 ELSE IF Truthy(res) THEN Put(res, resKey, rd.out)
                                 ELSE res
               /\ UNCHANGED <<prog, input, ip, regs, pc,
                              coll, m, r, hasReducer, isArr, arr, len>>

(* a loop that is left by an exception, past the teardown hooks *)
LoopExitThrown ==
    /\ pc = "loop" /\ ~(i < len)
    /\ Returned(Ret(ms_, THROWN))
    /\ UNCHANGED <<prog, input, frame>>

(* after the loop: the teardown hooks and the return *)
LoopExit ==
    /\ pc = "loop" /\ ~(i < len)
    /\ Returned(Ret(teardownState(teardownState(ms_, m), r), res))
    /\ UNCHANGED <<prog, input, frame>>

---------------------------------------------------------------------------
(* The programs and collections the model is run on *)

U == UNDEFINED

(* a value the client already holds (no call) *)
Lit(x) == Ins("lit", x, U, U, U, 0, << >>)

(* it.stateful(fn, setup, teardown): hs, ht tell which hooks are passed;   *)
(* the callbacks get their numbers from the position in the program        *)
StatefulAtom(fn, hs, ht) ==
    Ins("stateful", fn, Bool(hs), Bool(ht), U, 0, << >>)

(* steps for pipes of any length *)
CoreSteps ==
    { Lit(F("times2")),
      Ins("filter", F("odd"), U, U, U, 0, << >>),
      Ins("takeWhile", F("lt2"), U, U, U, 0, << >>),
      Ins("skip", Num(1), U, U, U, 0, << >>),
      StatefulAtom(F("times2"), TRUE, TRUE) }

(* further steps, used alone or as the mapper of a fused traversal *)
MoreSteps ==
    { Lit(F("keyPlus")),
      Lit(F("boom")),
      Lit(U),
      Lit(Num(7)),
      Ins("filter", Num(1), U, U, U, 0, << >>),
      Ins("takeWhile", Num(1), U, U, U, 0, << >>),
      Ins("skip", Num(2), U, U, U, 0, << >>),
      Ins("skip", Num(0), U, U, U, 0, << >>),
      StatefulAtom(F("times2"), TRUE, FALSE),
      StatefulAtom(F("times2"), FALSE, TRUE) }

StatelessSteps ==
    { Lit(F("times2")), Lit(F("keyPlus")),
      Ins("filter", F("odd"), U, U, U, 0, << >>),
      Ins("filter", Num(1), U, U, U, 0, << >>),
      Ins("takeWhile", F("lt2"), U, U, U, 0, << >>) }

Reducers ==
    { Lit(F("add")), Lit(F("addNot2")), Lit(F("addTo2")),
      StatefulAtom(F("add"), TRUE, TRUE) }

StatelessReducers == { Lit(F("add")), Lit(F("addNot2")), Lit(F("addTo2")) }

SEED == Num(10)

(* the calls that create the steps of atoms, and the operand for each:     *)
(* the j-th step's hooks are the client callbacks 10*j+1 and 10*j+2        *)
RECURSIVE Gen(_, _, _, _)
Gen(atoms, pos, code, ops) ==
    IF atoms = << >> THEN [code |-> code, ops |-> ops]
    ELSE LET at  == Head(atoms)
             at1 == IF at.op = "stateful"
                    THEN [at EXCEPT !.b = IF Truthy(at.b) THEN Num(10 * pos + 1) ELSE U,
                                    !.d = IF Truthy(at.d) THEN Num(10 * pos + 2) ELSE U]
                    ELSE at
         IN  IF at.op = "lit"
             THEN Gen(Tail(atoms), pos + 1, code, Append(ops, at.a))
             ELSE Gen(Tail(atoms), pos + 1, Append(code, at1),
                      Append(ops, Reg(Len(code) + 1)))

(* ... ; p = it.pipe(steps) *)
PipeCode(atoms) ==
    LET g == Gen(atoms, 1, << >>, << >>)
    IN  Append(g.code, Ins("pipe", U, U, U, U, 0, g.ops))

(* code ; the terminal call term on the value of the last call of code,    *)
(* with reducer red (for mapReduce) and a seed or not                      *)
WithTerminal(code, term, red, seeded) ==
    LET mref == Reg(Len(code))
        g    == Gen(<<red>>, 9, code, << >>)
    IN  IF term = "mapReduce"
        THEN Append(g.code, Ins("mapReduce", INPUT, mref, g.ops[1],
                                IF seeded THEN SEED ELSE U,
                                IF seeded THEN 4 ELSE 3, << >>))
        ELSE Append(code, Ins(term, INPUT, mref, U, U, 2, << >>))

Seqs(S, n) == [1..n -> S]

Terminals ==
    [term : {"map", "forEach", "sum", "count"}, red : {Lit(U)}, seeded : {FALSE}]
    \cup [term : {"mapReduce"}, red : Reducers, seeded : BOOLEAN]

FewTerminals ==
    { [term |-> "map", red |-> Lit(U), seeded |-> FALSE],
      [term |-> "count", red |-> Lit(U), seeded |-> FALSE],
      [term |-> "mapReduce", red |-> StatefulAtom(F("add"), TRUE, TRUE),
       seeded |-> FALSE] }

(* one step *)
SingleProgs ==
    { [kind |-> "single",
       code |-> WithTerminal(PipeCode(<<at>>), t.term, t.red, t.seeded)] :
        at \in CoreSteps, t \in Terminals }
    \cup
    { [kind |-> "single",
       code |-> WithTerminal(PipeCode(<<at>>), t.term, t.red, t.seeded)] :
        at \in MoreSteps, t \in FewTerminals }

(* pipes of 1..MaxPipe steps, mapped; pipes of two steps, reduced with a   *)
(* reducer that carries hooks                                              *)
PipeProgs ==
    UNION { { [kind |-> "pipe",
               code |-> WithTerminal(PipeCode(ats), "map", Lit(U), FALSE)] :
                ats \in Seqs(CoreSteps, n) } : n \in 1..MaxPipe }
    \cup
    { [kind |-> "pipe",
       code |-> WithTerminal(PipeCode(<<a1, a2>>), "mapReduce",
                             StatefulAtom(F("add"), TRUE, TRUE), FALSE)] :
        a1 \in CoreSteps, a2 \in CoreSteps }

NestSteps ==
    { Ins("filter", F("odd"), U, U, U, 0, << >>),
      Ins("skip", Num(1), U, U, U, 0, << >>),
      StatefulAtom(F("times2"), TRUE, TRUE) }

(* it.pipe(it.pipe(s1, s2), s3) and it.pipe(s1, it.pipe(s2, s3)) *)
NestedProgs ==
    { [kind |-> "nested",
       code |-> LET g == Gen(ats, 1, << >>, << >>)
                    inner == IF left THEN <<g.ops[1], g.ops[2]>>
                                     ELSE <<g.ops[2], g.ops[3]>>
                    c1 == Append(g.code, Ins("pipe", U, U, U, U, 0, inner))
                    outer == IF left THEN <<Reg(Len(c1)), g.ops[3]>>
                                     ELSE <<g.ops[1], Reg(Len(c1))>>
                    c2 == Append(c1, Ins("pipe", U, U, U, U, 0, outer))
                IN  Append(c2, Ins("map", INPUT, Reg(Len(c2)), U, U, 2, << >>))] :
        ats \in Seqs(NestSteps, 3), left \in BOOLEAN }

(* a = mapReduce(c, m, r [, seed]); b = map(c, m); d = reduce(b, r [, seed]) *)
FusionProgs ==
    { [kind |-> "fusion",
       code |-> LET g  == Gen(<<at, red>>, 1, << >>, << >>)
                    mo == g.ops[1]
                    ro == g.ops[2]
                    n  == Len(g.code)
                IN  g.code \o
                    << Ins("mapReduce", INPUT, mo, ro,
                           IF seeded THEN SEED ELSE U,
                           IF seeded THEN 4 ELSE 3, << >>),
                       Ins("map", INPUT, mo, U, U, 2, << >>),
                       Ins("reduce", Reg(n + 2), U, ro,
                           IF seeded THEN SEED ELSE U,
                           IF seeded THEN 3 ELSE 2, << >>) >>] :
        at \in StatelessSteps, red \in StatelessReducers, seeded \in BOOLEAN }

(* a Wrapper passed where a mapper is expected *)
WrapperProgs ==
    { [kind |-> "wrapper",
       code |-> << Ins("it", x, U, U, U, 1, << >>),
                   Ins("map", INPUT, Reg(1), U, U, 2, << >>) >>] :
        x \in {F("times2"), U} }

(* the n-th key of a keyed mapping: "10", "20", ... *)
KeyAt(n) == 10 * (n + 1)

Collections ==
    UNION { { Arr([j \in 0..(n - 1) |-> Num(vs[j + 1])]) : vs \in Seqs(1..MaxValue, n) }
            \cup
            { Obj([k \in {KeyAt(j) : j \in 0..(n - 1)} |-> Num(vs[k \div 10])]) :
                 vs \in Seqs(1..MaxValue, n) } : n \in 0..MaxLen }

(* it.map(input, x) *)
MapOf(x) == Ins("map", INPUT, x, U, U, 2, << >>)

One(op, a) == Ins(op, a, U, U, U, 0, << >>)

(* the counts given to skip and limit *)
Counts == 0..(MaxLen + 1)

(* skip(n), limit(n) and pipe(skip(a), limit(b)) as the mapper of map *)
SliceProgs ==
    { [kind |-> "slice", code |-> <<One(op, Num(n)), MapOf(Reg(1))>>] :
        op \in {"skip", "limit"}, n \in Counts }
    \cup
    { [kind |-> "slice",
       code |-> << One("skip", Num(a)), One("limit", Num(b)),
                   Ins("pipe", U, U, U, U, 0, <<Reg(1), Reg(2)>>),
                   MapOf(Reg(3)) >>] : a \in Counts, b \in Counts }

(* uniq() and uniq(idFn), alone and in a pipe, in two traversals of the    *)
(* same collection with the same function                                  *)
UniqProgs ==
    { [kind |-> "uniq",
       code |-> <<One("uniq", idf), MapOf(Reg(1)), MapOf(Reg(1))>>] :
        idf \in {U, F("odd"), F("times2")} }
    \cup
    { [kind |-> "uniqpipe",
       code |-> <<One("uniq", U)>> \o pre \o
                << Ins("pipe", U, U, U, U, 0,
                       IF pre = << >> THEN <<Reg(1), F("times2")>>
                                      ELSE <<Reg(2), Reg(1)>>),
                   MapOf(Reg(Len(pre) + 2)), MapOf(Reg(Len(pre) + 2)) >>] :
        pre \in {<< >>, <<One("filter", F("odd"))>>} }
    \cup
    { [kind |-> "uniqpipe",
       code |-> << One("uniq", U), Ins("pipe", U, U, U, U, 0, <<Reg(1)>>),
                   MapOf(Reg(2)), MapOf(Reg(2)) >>] }

(* s = a step; k = it.skip(n); p = it.pipe(s, k); it.map(c, s);            *)
(* it.map(c, p)                                                            *)
SkipAfterProgs ==
    { [kind |-> "skipafter",
       code |-> << first, One("skip", Num(n)),
                   Ins("pipe", U, U, U, U, 0, <<Reg(1), Reg(2)>>),
                   MapOf(Reg(1)), MapOf(Reg(3)) >>] :
        first \in { One("filter", F("odd")), One("filter", Num(1)),
                    One("takeWhile", F("lt2")),
                    Ins("pipe", U, U, U, U, 0, <<F("times2")>>) },
        n \in Counts }

(* the members of the pipe under reuse, as positions in the program *)
ReuseMembers ==
    { <<1>>, <<2>>, <<3>>, <<1, 2>>, <<2, 1>>, <<2, 3>>, <<3, 2>>,
      <<1, 2, 3>>, <<3, 1, 2>> }

(* an earlier traversal of the pipe p over another collection: one that    *)
(* runs to its end unless the predicate throws, and one that the reducer   *)
(* x => { if (x === 2) throw e; return x }, seeded with 2, aborts at the   *)
(* first item that passes                                                  *)
EarlierTraversals(p) ==
    { Ins("map", Arr([j \in 0..2 |-> Num(<<2, 1, 1>>[j + 1])]), p, U, U, 2, << >>),
      Ins("mapReduce", Arr([j \in 0..2 |-> Num(<<1, 2, 1>>[j + 1])]), p,
          F("boom"), Num(2), 4, << >>) }

(* f = it.takeFrom(pred); k = it.skip(a); l = it.limit(b);                 *)
(* p = it.pipe(members); it.map(c, p); an earlier traversal of p;          *)
(* it.map(c, p)                                                            *)
ReuseProgs ==
    { [kind |-> "reuse",
       code |-> << One("takeFrom", pred), One("skip", Num(a)),
                   One("limit", Num(b)),
                   Ins("pipe", U, U, U, U, 0,
                       [j \in 1..Len(ms) |-> Reg(ms[j])]),
                   MapOf(Reg(4)), earlier, MapOf(Reg(4)) >>] :
        pred \in {F("odd"), F("boom")}, a \in 0..2, b \in 1..2,
        ms \in ReuseMembers, earlier \in EarlierTraversals(Reg(4)) }

(* n = (v, k, o) => !f(v, k, o); u = it.takeUntil(f); a = it.takeFrom(n); *)
(* w = it.takeWhile(n); it.map(c, u); it.map(c, a); it.map(c, w)           *)
UntilProgs ==
    { [kind |-> "until",
       code |-> << One("negate", f), One("takeUntil", f),
                   One("takeFrom", Reg(1)), One("takeWhile", Reg(1)),
                   MapOf(Reg(2)), MapOf(Reg(3)), MapOf(Reg(4)) >>] :
        f \in {F("odd"), F("lt2"), F("times2"), F("keyPlus"), F("boom")} }

(* one step from each constructor; skip with several counts *)
LiveSteps ==
    { One("filter", F("odd")), One("takeFrom", F("odd")),
      One("takeWhile", F("lt2")), One("takeUntil", F("odd")),
      One("limit", Num(2)), One("uniq", U) }
    \cup { One("skip", Num(n)) : n \in 0..2 }

(* s1, s2 = steps; k = it.skip(1); p = it.pipe(s1, s2); q = it.pipe(p, k)  *)
(* or it.pipe(k, p); it.map(c, q)                                          *)
LiveCode(s1, s2, left) ==
    << s1, s2, One("skip", Num(1)),
       Ins("pipe", U, U, U, U, 0, <<Reg(1), Reg(2)>>),
       Ins("pipe", U, U, U, U, 0,
           IF left THEN <<Reg(4), Reg(3)>> ELSE <<Reg(3), Reg(4)>>),
       MapOf(Reg(5)) >>

LiveProgs ==
    { [kind |-> "live", code |-> LiveCode(s1, s2, TRUE)] :
        s1 \in LiveSteps, s2 \in LiveSteps }
    \cup
    { [kind |-> "live", code |-> LiveCode(s1, s2, FALSE)] :
        s1 \in {One("filter", F("odd")), One("skip", Num(2))},
        s2 \in LiveSteps }

(* the client callback number n passed as a hook, or no hook *)
Hook(given, n) == IF given THEN Num(n) ELSE U

(* a function that carries hooks gains hooks, or is wrapped by a filter    *)
HookProgs ==
    { [kind |-> "hooks",
       code |-> << Ins("stateful", F("times2"), Hook(s1, 11), Hook(t1, 12), U, 0, << >>),
                   Ins("stateful", Reg(1), Hook(s2, 21), Hook(t2, 22), U, 0, << >>),
                   MapOf(Reg(2)) >>] :
        s1 \in BOOLEAN, t1 \in BOOLEAN, s2 \in BOOLEAN, t2 \in BOOLEAN }
    \cup
    { [kind |-> "hooks",
       code |-> << Ins("stateful", F("odd"), Num(11), Num(12), U, 0, << >>),
                   One(op, Reg(1)),
                   MapOf(Reg(2)) >>] :
        op \in {"filter", "takeWhile", "takeUntil", "takeFrom", "uniq"} }

(* a function made with resettable, alone or in a pipe, in three           *)
(* traversals                                                              *)
ResetProgs ==
    { [kind |-> "reset",
       code |-> pre \o
                << Ins("resettable", IF pre = << >> THEN f ELSE Reg(1),
                       Num(31), U, U, 0, << >>) >> \o post \o
                << MapOf(Reg(Len(pre) + Len(post) + 1)),
                   MapOf(Reg(Len(pre) + Len(post) + 1)),
                   MapOf(Reg(Len(pre) + Len(post) + 1)) >>] :
        f \in {F("times2"), F("boom")},
        pre \in {<< >>, <<Ins("stateful", F("times2"), Num(11), Num(12), U, 0, << >>)>>,
                        <<One("takeWhile", F("lt2"))>>},
        post \in {<< >>} }
    \cup
    { [kind |-> "reset",
       code |-> << Ins("resettable", F("times2"), Num(31), U, U, 0, << >>),
                   Ins("pipe", U, U, U, U, 0, <<F("boom"), Reg(1)>>),
                   MapOf(Reg(2)), MapOf(Reg(2)), MapOf(Reg(2)) >>] }

(* a call of the method op of the builder w: b, d and xs as in Ins *)
WCall(op, w, b, d, xs) == Ins(op, w, b, d, U, 0, xs)

(* the chains of builder methods that make the pipe *)
Chains(w) ==
    { << >>,
      <<WCall("w.filter", w, F("odd"), U, << >>)>>,
      <<WCall("w.pipe", w, U, U, <<F("times2")>>)>>,
      <<WCall("w.skip", w, Num(1), U, << >>)>>,
      <<WCall("w.stateful", w, Num(11), Num(12), << >>)>>,
      <<WCall("w.filter", w, F("odd"), U, << >>), WCall("w.stateful", w, Num(11), Num(12), << >>)>>,
      <<WCall("w.filter", w, F("odd"), U, << >>), WCall("w.pipe", w, U, U, <<F("times2")>>)>>,
      <<WCall("w.skip", w, Num(1), U, << >>), WCall("w.filter", w, F("odd"), U, << >>)>>,
      <<WCall("w.filter", w, F("odd"), U, << >>), WCall("w.get", w, U, U, << >>),
        WCall("w.stateful", w, Num(11), Num(12), << >>)>> }

(* the terminal calls that take an extra step x *)
ExtraCalls(w, x) ==
    { WCall("w.map", w, U, U, <<INPUT, x>>),
      WCall("w.forEach", w, U, U, <<INPUT, x>>),
      WCall("w.sum", w, U, U, <<INPUT, x>>),
      WCall("w.mapReduce", w, U, U, <<INPUT, x, F("add")>>),
      WCall("w.mapReduce", w, U, U, <<INPUT, x, F("add"), Num(0)>>) }

(* odd = it.filter(odd'); st = it.stateful(times2, s, t); w = it(f);       *)
(* chain; w.map(c); a terminal with an extra step; w.map(c);               *)
(* g = w.get(); it.map(c, g)                                               *)
ExtraProgs ==
    { [kind |-> "extra",
       code |-> << One("filter", F("odd")),
                   Ins("stateful", F("times2"), Num(21), Num(22), U, 0, << >>),
                   One("it", f) >> \o chain \o
                << WCall("w.map", Reg(3), U, U, <<INPUT>>),
                   call,
                   WCall("w.map", Reg(3), U, U, <<INPUT>>),
                   WCall("w.get", Reg(3), U, U, << >>),
                   MapOf(Reg(Len(chain) + 7)) >>] :
        f \in {U, F("times2")},
        chain \in Chains(Reg(3)),
        call \in UNION {ExtraCalls(Reg(3), x) : x \in {F("times2"), Reg(1), Reg(2)}} }

(* what a builder can be asked to do *)
BuilderOps(w) ==
    { WCall("w.pipe", w, U, U, << >>),
      WCall("w.pipe", w, U, U, <<F("times2")>>),
      WCall("w.filter", w, F("odd"), U, << >>),
      WCall("w.stateful", w, Num(21), Num(22), << >>),
      WCall("w.resettable", w, Num(31), U, << >>),
      WCall("w.get", w, U, U, << >>),
      WCall("w.map", w, U, U, <<INPUT>>),
      WCall("w.reduce", w, U, U, <<INPUT, F("add")>>) }

(* st = it.stateful(times2, s, t); w1 = it(f); [w2 = it(w1);] one or two   *)
(* operations on the last builder; it.map(c, f); [w1.map(c)]               *)
BuilderProgs ==
    { [kind |-> "builder",
       code |-> << Ins("stateful", F("times2"), Num(11), Num(12), U, 0, << >>),
                   One("it", f) >> \o
                (IF nested THEN <<One("it", Reg(2))>> ELSE << >>) \o
                [j \in DOMAIN ops |->
                    [ops[j] EXCEPT !.a = IF nested THEN Reg(3) ELSE Reg(2)]] \o
                <<MapOf(f)>> \o
                (IF nested THEN <<WCall("w.map", Reg(2), U, U, <<INPUT>>)>>
                           ELSE << >>)] :
        f \in {F("times2"), Reg(1)},
        nested \in BOOLEAN,
        ops \in {<<o>> : o \in BuilderOps(Reg(0))} \cup
                {<<o1, o2>> :
                    o1 \in {WCall("w.pipe", Reg(0), U, U, << >>),
                            WCall("w.filter", Reg(0), F("odd"), U, << >>),
                            WCall("w.get", Reg(0), U, U, << >>)},
                    o2 \in BuilderOps(Reg(0))} }

(* od = it.filter(odd); w = it(f); chain; a seeded fold through the        *)
(* builder, with or without an extra step; g = w.get(); the same fold with *)
(* the static function: it.mapReduce(c, g, add, seed)                      *)
SeedProgs ==
    { [kind |-> "seed",
       code |-> << One("filter", F("odd")), One("it", f) >> \o chain \o
                << call,
                   WCall("w.get", Reg(2), U, U, << >>),
                   Ins("mapReduce", INPUT, Reg(Len(chain) + 4), F("add"), SEED,
                       4, << >>) >>] :
        f \in {F("times2"), Reg(1)},
        chain \in {<< >>, <<WCall("w.filter", Reg(2), F("odd"), U, << >>)>>},
        call \in { WCall("w.reduce", Reg(2), U, U, <<INPUT, F("add"), SEED>>),
                   WCall("w.mapReduce", Reg(2), U, U, <<INPUT, U, F("add"), SEED>>),
                   WCall("w.mapReduce", Reg(2), U, U,
                         <<INPUT, F("times2"), F("add"), SEED>>) } }

(* the chain calls made on a builder w; st is it.stateful(times2, s, t) *)
ChainCalls(w) ==
    { WCall("w.filter", w, F("odd"), U, << >>),
      WCall("w.skip", w, Num(1), U, << >>),
      WCall("w.pipe", w, U, U, <<Reg(1)>>) }

(* the calls of chain from the j-th on, with g[j - 1] calls of w.get()     *)
(* before the j-th and g[Len(chain)] after the last                        *)
RECURSIVE Weave(_, _, _, _)
Weave(chain, g, w, j) ==
    [k \in 1..g[j - 1] |-> WCall("w.get", w, U, U, << >>)] \o
    (IF j > Len(chain) THEN << >>
     ELSE <<chain[j]>> \o Weave(chain, g, w, j + 1))

(* the calls of chain, made on the builder w *)
OnBuilder(chain, w) == [j \in DOMAIN chain |-> [chain[j] EXCEPT !.a = w]]

(* st = it.stateful(times2, s, t); w1 = it(f); chain; w1.map(c);           *)
(* w2 = it(f); the same chain with calls of get() put in; w2.map(c)        *)
GetProgs ==
    UNION { { [kind |-> "get",
               code |-> << Ins("stateful", F("times2"), Num(21), Num(22), U, 0, << >>),
                           One("it", f) >> \o
                        OnBuilder(chain, Reg(2)) \o
                        << WCall("w.map", Reg(2), U, U, <<INPUT>>),
                           One("it", f) >> \o
                        Weave(OnBuilder(chain, Reg(n + 4)), g, Reg(n + 4), 1) \o
                        << WCall("w.map", Reg(n + 4), U, U, <<INPUT>>) >>] :
                f \in {U, Reg(1)},
                chain \in [1..n -> ChainCalls(Reg(0))],
                g \in {x \in [0..n -> 0..2] : \A j \in 0..(n - 1) : x[j] <= 1} } :
            n \in 0..2 }

(* st = it.stateful(times2, s, t); w = it(st); chain; p = it.pipe(members)  *)
(* with the builder w, or st itself, as a member; it.map(c, p)             *)
MemberProgs ==
    { [kind |-> "member",
       code |-> << Ins("stateful", F("times2"), Num(21), Num(22), U, 0, << >>),
                   One("it", Reg(1)) >> \o chain \o
                << Ins("pipe", U, U, U, U, 0, members),
                   MapOf(Reg(Len(chain) + 3)) >>] :
        chain \in {<< >>, <<WCall("w.filter", Reg(2), F("odd"), U, << >>)>>},
        members \in { <<Reg(2)>>, <<Reg(2), F("times2")>>, <<F("times2"), Reg(2)>>,
                      <<Reg(1), F("times2")>> } }

(* the collections the builders are run on *)
WrapInputs ==
    UNION { { Arr([j \in 0..(n - 1) |-> Num(vs[j + 1])]) : vs \in Seqs(1..MaxValue, n) } :
            n \in 0..(MaxLen - 1) }

(* two plain objects, { a: 1 } and { a: 2 } *)
O1 == Obj([k \in {KeyAt(0)} |-> Num(1)])
O2 == Obj([k \in {KeyAt(0)} |-> Num(2)])

(* ordered sequences of numbers and plain objects *)
MixedArrays ==
    UNION { { Arr([j \in 0..(n - 1) |-> vs[j + 1]]) :
                vs \in Seqs({Num(v) : v \in 1..MaxValue} \cup {O1, O2}, n) } :
            n \in 0..MaxLen }

(* [1, 2, 2, 3, 1] *)
UniqExample ==
    Arr([j \in 0..4 |-> Num(<<1, 2, 2, 3, 1>>[j + 1])])

(* the programs about the filter constructors and the hooks, each with the *)
(* collections it is run on                                                *)
OpsRuns ==
    [prog : SliceProgs \cup HookProgs \cup ResetProgs \cup SkipAfterProgs,
     input : {c \in Collections : IsArray(c)}]
    \cup
    [prog : UniqProgs, input : Collections \cup MixedArrays \cup {UniqExample}]
    \cup
    [prog : UntilProgs, input : Collections]

(* programs of one step, with every traversal *)
Programs == SingleProgs \cup FusionProgs \cup WrapperProgs

(* programs that build pipes *)
PipePrograms == PipeProgs \cup NestedProgs

---------------------------------------------------------------------------
(* The state machine *)

(* no call made yet, no traversal running *)
Start ==
    /\ ip = 1
    /\ regs = << >>
    /\ heap = InitHeap
    /\ wrappers = << >>
    /\ log = << >>
    /\ pc = "idle"
    /\ coll = UNDEFINED
    /\ m = UNDEFINED
    /\ r = UNDEFINED
    /\ hasReducer = FALSE
    /\ isArr = FALSE
    /\ arr = UNDEFINED
    /\ len = 0
    /\ i = 0
    /\ resI = 0
    /\ resIsFirst = UNDEFINED
    /\ res = UNDEFINED

Init ==
    /\ prog \in Programs
    /\ input \in Collections
    /\ Start

Next ==
    \/ CallFilter
    \/ CallTakeWhile
    \/ CallSkip
    \/ CallPipe
    \/ CallStateful
    \/ CallIt
    \/ CallMapReduce
    \/ CallForEach
    \/ CallMap
    \/ CallReduce
    \/ CallSum
    \/ CallCount
    \/ LoopStep
    \/ LoopExit

Spec == Init /\ [][Next]_vars

(* the programs that build pipes, over ordered sequences *)
InitPipe ==
    /\ prog \in PipePrograms
    /\ input \in {c \in Collections : IsArray(c)}
    /\ Start

NextPipe ==
    \/ CallFilter
    \/ CallTakeWhile
    \/ CallSkip
    \/ CallPipe
    \/ CallStateful
    \/ CallMapReduce
    \/ CallMap
    \/ LoopStep
    \/ LoopExit

SpecPipe == InitPipe /\ [][NextPipe]_vars

(* the programs about the filter constructors and the hooks *)
InitOps ==
    /\ \E run \in OpsRuns : prog = run.prog /\ input = run.input
    /\ Start

NextOps ==
    \/ CallFilter
    \/ CallTakeWhile
    \/ CallTakeFrom
    \/ CallTakeUntil
    \/ CallNegate
    \/ CallSkip
    \/ CallLimit
    \/ CallUniq
    \/ CallPipe
    \/ CallStateful
    \/ CallResettable
    \/ CallMap
    \/ LoopStep
    \/ LoopExit

SpecOps == InitOps /\ [][NextOps]_vars

(* the programs that use one pipe for several traversals *)
InitReuse ==
    /\ prog \in ReuseProgs
    /\ input \in {c \in Collections : IsArray(c)}
    /\ Start

NextReuse ==
    \/ CallTakeFrom
    \/ CallSkip
    \/ CallLimit
    \/ CallPipe
    \/ CallMap
    \/ CallMapReduce
    \/ LoopStep
    \/ LoopExit

SpecReuse == InitReuse /\ [][NextReuse]_vars

(* the programs whose mapper is built from the constructors; mapReduce is  *)
(* synchronous: once the loop is entered it runs until it is left          *)
InitLive ==
    /\ prog \in LiveProgs
    /\ input \in {c \in Collections : IsArray(c)}
    /\ Start

NextLive ==
    \/ CallFilter
    \/ CallTakeWhile
    \/ CallTakeFrom
    \/ CallTakeUntil
    \/ CallSkip
    \/ CallLimit
    \/ CallUniq
    \/ CallPipe
    \/ CallMap
    \/ LoopStep
    \/ LoopExit

(* WF_vars(LoopStep \/ LoopExit), with ENABLED written out: inside        *)
(* mapReduce one of the two can always be taken, and taking it changes the *)
(* trace or returns                                                        *)
LoopFair ==
    ([]<><<LoopStep \/ LoopExit>>_vars) \/ ([]<>(pc # "loop"))

SpecLive == InitLive /\ [][NextLive]_vars /\ LoopFair

(* the programs that use a builder *)
InitWrap ==
    /\ prog \in ExtraProgs \cup BuilderProgs \cup SeedProgs \cup GetProgs
                \cup MemberProgs
    /\ input \in WrapInputs
    /\ Start

NextWrap ==
    \/ CallFilter
    \/ CallPipe
    \/ CallStateful
    \/ CallIt
    \/ CallPipeMethod
    \/ CallWrapperPipe
    \/ CallWrapperStateful
    \/ CallWrapperResettable
    \/ CallGet
    \/ CallTerminalMethod
    \/ CallMap
    \/ CallMapReduce
    \/ LoopStep
    \/ LoopExit

SpecWrap == InitWrap /\ [][NextWrap]_vars

TypeOK ==
    /\ pc \in {"idle", "loop"}
    /\ ip \in 1..(Len(prog.code) + 1)
    /\ Len(regs) = ip - 1

---------------------------------------------------------------------------
(* Reading the trace of a traversal *)

IsTraversal(ins) ==
    \/ ins.op \in {"mapReduce", "map", "forEach", "reduce", "sum"}
    \/ ins.op \in TerminalOps
    \/ ins.op = "count" /\ Resolve(ins.b).t # "undefined"

LastCall == prog.code[ip - 1]

(* the last call was a traversal and it returned normally / threw *)
Finished == pc = "idle" /\ ip > 1 /\ IsTraversal(LastCall) /\ regs[ip - 1] # THROWN
Aborted  == pc = "idle" /\ ip > 1 /\ IsTraversal(LastCall) /\ regs[ip - 1] = THROWN

InTraversal == pc = "loop" \/ Finished

HasSetup(f)    == SetupOf(ms_, f) # << >>
HasTeardown(f) == TeardownOf(ms_, f) # << >>

At(e)       == {j \in DOMAIN log : log[j].e = e}
AtOn(e, f)  == {j \in DOMAIN log : log[j].e = e /\ isFn(f) /\ log[j].id = f.v}

(* where the loop evaluated something *)
IsWork(j) == log[j].e \in {"pos", "mapped", "call", "ret"}
Work == {j \in DOMAIN log : IsWork(j)}

IsMapped(ev)   == ev.e = "mapped"
IsAccepted(ev) == ev.e = "mapped" /\ ~isFiltered(ev.args[1])

(* the outcomes of the mapper, position by position, and those it accepted *)
Mapped   == SelectSeq(log, IsMapped)
Accepted == SelectSeq(log, IsAccepted)

KeyOfPos(p) == IF IsArray(coll) THEN p ELSE ObjectKeys(coll)[p + 1]

---------------------------------------------------------------------------
(* C1: in every traversal that returns normally the setup hook of the      *)
(* mapper and then of the reducer runs exactly once before any position is *)
(* evaluated, and the teardown hook of the mapper and then of the reducer  *)
(* exactly once after the last position, also for an empty collection or   *)
(* when FilteredRest ends the loop early.                                  *)
C1_HooksOncePerTraversal ==
    InTraversal =>
      /\ \A f \in {m, r} :
           /\ Cardinality(AtOn("setup", f)) = IF HasSetup(f) THEN 1 ELSE 0
           /\ Cardinality(AtOn("teardown", f)) =
                 IF Finished /\ HasTeardown(f) THEN 1 ELSE 0
      /\ \A j \in At("setup"), w \in Work : j < w
      /\ \A j \in At("teardown"), w \in Work : w < j
      /\ \A a \in AtOn("setup", m), b \in AtOn("setup", r) : a < b
      /\ \A a \in AtOn("teardown", m), b \in AtOn("teardown", r) : a < b

(* a traversal of a collection that is not empty, with both hooks on the   *)
(* mapper and on the reducer, has returned                                 *)
C1_Witness ==
    /\ Finished /\ len > 0
    /\ HasSetup(m) /\ HasTeardown(m) /\ HasSetup(r) /\ HasTeardown(r)

(* C2: when a callback throws during a traversal, the teardown hooks of    *)
(* the mapper and of the reducer still run before the exception reaches    *)
(* the caller.                                                             *)
C2_TeardownOnThrow ==
    Aborted =>
      \A f \in {m, r} :
         Cardinality(AtOn("teardown", f)) = IF HasTeardown(f) THEN 1 ELSE 0

(* C3: map(c, m) returns a collection of the kind of c; for an array the   *)
(* accepted mapped values in source order at indices 0..k-1, for a keyed   *)
(* mapping exactly the accepted entries under their own keys.              *)
C3_MapResult ==
    (Finished /\ LastCall.op = "map") =>
      LET k == Len(Accepted)
      IN  /\ regs[ip - 1] = res
          /\ res.t = coll.t
          /\ \A j \in 1..(k - 1) : Accepted[j].id < Accepted[j + 1].id
          /\ IsArray(coll) =>
               /\ DOMAIN res.c = 0..(k - 1)
               /\ \A j \in 1..k : res.c[j - 1] = Accepted[j].args[1]
          /\ ~IsArray(coll) =>
               /\ DOMAIN res.c = {KeyOfPos(Accepted[j].id) : j \in 1..k}
               /\ \A j \in 1..k :
                     res.c[KeyOfPos(Accepted[j].id)] = Accepted[j].args[1]
          /\ m.t = "undefined" => res = coll

(* an array mapped with a position rejected before an accepted one *)
C3_Witness ==
    /\ Finished /\ LastCall.op = "map" /\ IsArray(coll)
    /\ \E a, b \in DOMAIN Mapped :
          a < b /\ Mapped[a].args[1] = FILTERED /\ ~isFiltered(Mapped[b].args[1])

---------------------------------------------------------------------------
(* C4: mapReduce(c, m, r [, seed]) returns what reduce(map(c, m), r        *)
(* [, seed]) returns, for stateless m and r.  The programs of kind         *)
(* "fusion" compute both: the third call from the end is the fused         *)
(* traversal, the last one the reduce of the map.                          *)
ProgramDone == pc = "idle" /\ ip = Len(prog.code) + 1

C4_FusionEquivalence ==
    (prog.kind = "fusion" /\ ProgramDone) =>
        regs[Len(prog.code) - 2] = regs[Len(prog.code)]

---------------------------------------------------------------------------
(* C5: without a seed the first value accepted by the mapper becomes the   *)
(* accumulator and the reducer is not called for it; it is called once for *)
(* each later accepted value, in order.  With a seed the reducer is called *)
(* for every accepted value, the first time with the seed as accumulator.  *)

(* the call of the client program that started the traversal *)
TravIns == IF pc = "loop" THEN prog.code[ip] ELSE prog.code[ip - 1]

Seeded == \/ TravIns.op = "mapReduce" /\ TravIns.n = 4
          \/ TravIns.op = "reduce" /\ TravIns.n = 3
          \/ TravIns.op = "count"

SeedValue == IF TravIns.op = "count" THEN Num(0) ELSE Resolve(TravIns.e)

IsReducerCall(ev) == ev.e = "call" /\ ev.id = r.v

ReducerCalls == SelectSeq(log, IsReducerCall)

C5_SeedAndFirstValue ==
    (InTraversal /\ hasReducer /\ isFn(r)) =>
        IF Seeded
        THEN /\ Len(ReducerCalls) = Len(Accepted)
             /\ \A j \in DOMAIN ReducerCalls :
                    ReducerCalls[j].args[2] = Accepted[j].args[1]
             /\ ReducerCalls # << >> => ReducerCalls[1].args[1] = SeedValue
             /\ (Finished /\ Accepted = << >>) => regs[ip - 1] = SeedValue
        ELSE /\ Len(ReducerCalls) = IF Accepted = << >> THEN 0
                                    ELSE Len(Accepted) - 1
             /\ \A j \in DOMAIN ReducerCalls :
                    ReducerCalls[j].args[2] = Accepted[j + 1].args[1]
             /\ ReducerCalls # << >> =>
                    ReducerCalls[1].args[1] = Accepted[1].args[1]
             /\ (Finished /\ Len(Accepted) = 1) =>
                    regs[ip - 1] = Accepted[1].args[1]

C5_Witness ==
    /\ Finished /\ hasReducer /\ isFn(r) /\ ~Seeded
    /\ Len(Accepted) = 2 /\ Len(ReducerCalls) = 1
    /\ \E j \in DOMAIN Mapped : isFiltered(Mapped[j].args[1])

---------------------------------------------------------------------------
(* Calls and returns in the trace *)

IsCall(j) == log[j].e = "call"
IsRet(j)  == log[j].e = "ret"

RECURSIVE OpenAfter(_, _, _), OpenAfterRest(_, _, _)

(* how many calls are open after each of the events lo..hi, when base are  *)
(* open before lo (computed by halves)                                     *)
OpenAfter(lo, hi, base) ==
    IF lo > hi THEN << >>
    ELSE IF lo = hi
    THEN <<base + (IF IsCall(lo) THEN 1 ELSE IF IsRet(lo) THEN -1 ELSE 0)>>
    ELSE OpenAfterRest(OpenAfter(lo, (lo + hi) \div 2, base),
                       (lo + hi) \div 2 + 1, hi)

OpenAfterRest(left, lo, hi) == left \o OpenAfter(lo, hi, left[Len(left)])

Min(S) == CHOOSE x \in S : \A y \in S : x <= y

(* the event that closes the call at j: the first one after it that leaves *)
(* fewer calls open than the call left; 0 when the call never returned     *)
RetOf(open, j) ==
    IF \E k \in (j + 1)..Len(log) : open[k] < open[j]
    THEN CHOOSE k \in (j + 1)..Len(log) :
             /\ open[k] < open[j]
             /\ \A h \in (j + 1)..(k - 1) : open[h] >= open[j]
    ELSE 0

(* the nesting of the calls in the trace: open, the number of calls open   *)
(* after each event, and ret, for each call the event that closes it       *)
NestingOf(open) ==
    [open |-> open,
     ret  |-> [j \in DOMAIN log |-> IF IsCall(j) THEN RetOf(open, j) ELSE 0]
                 @@ << >>]

Nesting == NestingOf(OpenAfter(1, Len(log), 0))

(* the value returned by the call at c *)
RetVal(nest, c) == log[nest.ret[c]].args[1]

(* the calls made directly by the call at c, in order: the calls between c *)
(* and its return that leave one call more open than c left                *)
Children(nest, c) ==
    SortedSeq({j \in (c + 1)..(nest.ret[c] - 1) :
                 IsCall(j) /\ nest.open[j] = nest.open[c] + 1})

KindAt(c) == heap[log[c].id].kind

---------------------------------------------------------------------------
(* C6: the function returned by pipe applies its members in order, each to *)
(* the result of the one before and with the same key and collection; the  *)
(* first Filtered outcome stops it, no later member is called for the item *)
(* and that outcome is what the piped function returns; a FilteredRest     *)
(* returned to the traversal ends it.                                      *)
C6_PipeOrder ==
    \A nest \in {Nesting} :
        /\ \A c \in At("call") :
             KindAt(c) = "pipe" =>
               \A ch \in {Children(nest, c)} :
               LET mem == heap[log[c].id].mappers
                   n   == Len(ch)
               IN  /\ 1 <= n /\ n <= Len(mem)
                   /\ \A j \in 1..n :
                        /\ log[ch[j]].id = mem[j].v
                        /\ log[ch[j]].args[1] = IF j = 1 THEN log[c].args[1]
                                                ELSE RetVal(nest, ch[j - 1])
                        /\ log[ch[j]].args[2] = log[c].args[2]
                        /\ log[ch[j]].args[3] = log[c].args[3]
                   /\ \A j \in 1..(n - 1) : ~isFiltered(RetVal(nest, ch[j]))
                   /\ n < Len(mem) => isFiltered(RetVal(nest, ch[n]))
                   /\ RetVal(nest, c) = RetVal(nest, ch[n])
        /\ \A j \in At("mapped") :
             log[j].args[1] = FILTERED_REST => \A p \in At("pos") : p < j

C6_Witness ==
    \E nest \in {Nesting} :
        /\ Finished
        /\ \E c \in At("call") :
             /\ KindAt(c) = "pipe"
             /\ Len(Children(nest, c)) < Len(heap[log[c].id].mappers)
             /\ RetVal(nest, c) = FILTERED_REST
        /\ \E c \in At("call") :
             /\ KindAt(c) = "pipe"
             /\ Len(Children(nest, c)) = Len(heap[log[c].id].mappers)
             /\ ~isFiltered(RetVal(nest, c))

---------------------------------------------------------------------------
(* C7: a piped function carries hooks iff a member function does; in a     *)
(* traversal the setup hooks of the members that carry one run once each,  *)
(* in pipe order, before the first position, and their teardown hooks once *)
(* each, in pipe order, after the loop, through nested pipes too.          *)

(* the calls op of the client program that returned a function *)
MadeBy(op) == {j \in 1..Len(regs) : prog.code[j].op = op /\ isFn(regs[j])}

HasHooks(f) == isFn(f) /\ (heap[f.v].setup # << >> \/ heap[f.v].teardown # << >>)

RECURSIVE FlatHooks(_, _), FlatHooksOf(_, _)

(* the hooks (setup or teardown) that the operand x of the client program  *)
(* should carry, read off the calls that made it: the client callbacks and *)
(* skip resets of its members, flattened, in pipe order                    *)
FlatHooks(x, isSetup) ==
    IF x.t # "reg" THEN << >>
    ELSE LET ins == prog.code[x.v]
         IN  CASE ins.op = "pipe" -> FlatHooksOf(ins.args, isSetup)
               [] ins.op = "stateful" ->
                    FlatHooks(ins.a, isSetup)
                       \o UserHook(IF isSetup THEN ins.b ELSE ins.d)
               [] ins.op = "skip" ->
                    IF isSetup THEN <<Prim("skipSetup", regs[x.v].v)>> ELSE << >>
               [] ins.op \in {"filter", "takeWhile"} -> FlatHooks(ins.a, isSetup)
               [] OTHER -> << >>

FlatHooksOf(xs, isSetup) ==
    IF xs = << >> THEN << >>
    ELSE FlatHooks(Head(xs), isSetup) \o FlatHooksOf(Tail(xs), isSetup)

IsHookStep(ev) == ev.e \in {"user", "skipSetup"}

(* the callbacks and skip resets that ran, before position p of the trace  *)
(* (setup) or from it on (teardown)                                        *)
HookSteps(from, to) ==
    LET evs == SelectSeq(SubSeq(log, from, to), IsHookStep)
    IN  [j \in DOMAIN evs |-> Prim(evs[j].e, evs[j].id)]

(* the first and the last step of the trace that is work on an item *)
FirstWork ==
    IF \E j \in DOMAIN log : IsWork(j)
    THEN CHOOSE j \in DOMAIN log : IsWork(j) /\ \A h \in 1..(j - 1) : ~IsWork(h)
    ELSE Len(log) + 1
LastWork ==
    IF \E j \in DOMAIN log : IsWork(j)
    THEN CHOOSE j \in DOMAIN log : IsWork(j) /\ \A h \in (j + 1)..Len(log) : ~IsWork(h)
    ELSE 0

(* where the teardown hooks start in the trace *)
TeardownStart == IF At("teardown") = {} THEN Len(log) + 1 ELSE Min(At("teardown"))

C7_PipeHooks ==
    /\ \A t \in MadeBy("pipe") :
         HasHooks(regs[t]) <=>
            \E j \in DOMAIN prog.code[t].args :
                HasHooks(Resolve(prog.code[t].args[j]))
    /\ InTraversal =>
         LET ts == TeardownStart
         IN  /\ HookSteps(1, ts - 1) =
                   FlatHooks(TravIns.b, TRUE) \o FlatHooks(TravIns.d, TRUE)
             /\ \A j \in 1..(ts - 1) : IsHookStep(log[j]) => j < FirstWork
             /\ HookSteps(ts, Len(log)) =
                   IF Finished
                   THEN FlatHooks(TravIns.b, FALSE) \o FlatHooks(TravIns.d, FALSE)
                   ELSE << >>
             /\ ts > LastWork

C7_Witness ==
    /\ Finished /\ prog.kind = "nested"
    /\ Len(FlatHooks(TravIns.b, TRUE)) = 3
    /\ Len(FlatHooks(TravIns.b, FALSE)) = 2
    /\ Work # {}

---------------------------------------------------------------------------
(* C8: the read cursor strictly increases from one iteration to the next:  *)
(* the positions evaluated in a traversal are strictly increasing, so none *)
(* is evaluated twice and at most len of them are evaluated.               *)
C8_CursorIncreases ==
    /\ \A a, b \in At("pos") : a < b => log[a].id < log[b].id
    /\ Cardinality(At("pos")) <= len

---------------------------------------------------------------------------
(* C9: a function made by takeWhile(p) returns its item while p passes     *)
(* and FilteredRest for the first item that fails p; after that item no    *)
(* position is evaluated and no function is called in the traversal; alone *)
(* as the mapper of map it yields the longest prefix of items passing p.   *)

(* p passes v: p(v) is truthy for a function p, v === p otherwise *)
Passes(p, v) ==
    IF isFn(p) THEN Truthy(UserCall(heap[p.v].name, <<v, U, U, U>>))
    ELSE StrictEquals(v, p)

(* the items of the collection c in traversal order *)
Items(c) == IF IsArray(c) THEN ArrToSeq(c)
            ELSE [j \in 1..Len(ObjectKeys(c)) |-> c.c[ObjectKeys(c)[j]]]

(* the collection of the kind of c that holds the items of c at the        *)
(* positions (1..) in S, sequences compacted                               *)
Sub(c, S) ==
    IF IsArray(c)
    THEN LET ps == SortedSeq(S)
         IN  Arr([j \in 0..(Len(ps) - 1) |-> Items(c)[ps[j + 1]]])
    ELSE Obj([k \in {ObjectKeys(c)[j] : j \in S} |-> c.c[k]])

C9_TakeWhile ==
    \A t \in MadeBy("takeWhile"), nest \in {Nesting} :
       LET p == Resolve(prog.code[t].a)
           calls == {c \in At("call") : log[c].id = regs[t].v}
       IN  /\ \A c \in calls :
                /\ RetVal(nest, c) =
                      IF Passes(p, log[c].args[1]) THEN log[c].args[1]
                                                   ELSE FILTERED_REST
                /\ ~Passes(p, log[c].args[1]) =>
                      \A j \in (nest.ret[c] + 1)..Len(log) :
                          log[j].e \notin {"pos", "call"}
           /\ (Finished /\ LastCall.op = "map" /\ m = regs[t]) =>
                 LET its == Items(coll)
                     k == Cardinality({j \in DOMAIN its :
                              \A h \in 1..j : Passes(p, its[h])})
                 IN  regs[ip - 1] = Sub(coll, 1..k)

C9_Witness ==
    /\ Finished /\ LastCall.op = "map"
    /\ \E t \in MadeBy("takeWhile") :
         /\ m = regs[t]
         /\ Len(Accepted) = 1
         /\ \E j \in DOMAIN Items(coll) :
               j > 2 /\ Passes(Resolve(prog.code[t].a), Items(coll)[j])

---------------------------------------------------------------------------
(* C10: map(c, filter(f)) is c restricted to the items that pass f, values *)
(* unchanged and order kept (sequences compacted).                         *)
C10_Filter ==
    \A t \in MadeBy("filter") :
       (Finished /\ LastCall.op = "map" /\ m = regs[t]) =>
          regs[ip - 1] =
             Sub(coll, {j \in DOMAIN Items(coll) :
                           Passes(Resolve(prog.code[t].a), Items(coll)[j])})

C10_Witness ==
    /\ Finished /\ LastCall.op = "map"
    /\ \E t \in MadeBy("filter") :
         /\ m = regs[t]
         /\ ~isFn(Resolve(prog.code[t].a))
         /\ Len(Accepted) = 2 /\ Len(Mapped) = 3
         /\ isFiltered(Mapped[2].args[1])

---------------------------------------------------------------------------
(* C11: over an ordered sequence of length L, map with skip(n) yields the  *)
(* items at positions n..L-1, map with limit(n) the items at positions     *)
(* 0..min(n, L)-1, and map with pipe(skip(a), limit(b)) the items at       *)
(* positions a..min(a+b, L)-1.                                             *)

(* the positions (1..) that the program of kind "slice" should keep *)
SliceOf(code, L) ==
    IF code[1].op = "skip" /\ Len(code) = 2
    THEN {j \in 1..L : j > code[1].a.v}
    ELSE IF code[1].op = "limit"
    THEN {j \in 1..L : j <= code[1].a.v}
    ELSE {j \in 1..L : j > code[1].a.v /\ j <= code[1].a.v + code[2].a.v}

C11_SkipLimit ==
    (Finished /\ prog.kind = "slice") =>
        regs[ip - 1] = Sub(coll, SliceOf(prog.code, len))

(* skip then limit, with items dropped at both ends *)
C11_Witness ==
    /\ Finished /\ prog.kind = "slice" /\ Len(prog.code) = 4
    /\ prog.code[1].a.v >= 1 /\ prog.code[2].a.v >= 1
    /\ prog.code[1].a.v + prog.code[2].a.v < len
    /\ Length(regs[ip - 1]) = prog.code[2].a.v

---------------------------------------------------------------------------
(* C12: map(c, uniq()) yields each distinct value of c once, at its first  *)
(* occurrence, in source order; with uniq(idFn) two items are duplicates   *)
(* iff idFn gives them the same identity.                                  *)

(* the identity of item v under the argument idf of uniq *)
IdentityOf(idf, v) ==
    IF isFn(idf) THEN UserCall(heap[idf.v].name, <<v, U, U, U>>) ELSE v

(* the positions (1..) of the first occurrences in c *)
FirstOccurrences(idf, c) ==
    {j \in DOMAIN Items(c) :
        \A h \in 1..(j - 1) :
            IdentityOf(idf, Items(c)[h]) # IdentityOf(idf, Items(c)[j])}

C12_Uniq ==
    (Finished /\ prog.kind = "uniq") =>
        regs[ip - 1] = Sub(coll, FirstOccurrences(prog.code[1].a, coll))

---------------------------------------------------------------------------
(* C13: after one traversal of [1, 2, 2, 3, 1] with a pipe containing      *)
(* uniq(), a second traversal of the same collection with the same pipe,   *)
(* the caller resetting nothing in between, yields the empty sequence.     *)
(* The programs of kind "uniqpipe" make the two traversals: their results  *)
(* are the last two values returned.                                       *)
C13_SecondTraversalEmpty ==
    (ProgramDone /\ prog.kind = "uniqpipe" /\ input = UniqExample) =>
        regs[Len(prog.code)] = Arr(NoElems)

(* C13 as amended: the second traversal yields what the first one yielded  *)
(* ([1, 2, 3] with pipe(uniq())): the setup hook of uniq, run at the start *)
(* of every traversal, forgets the values seen before.                     *)
C13_SecondTraversalSame ==
    (ProgramDone /\ prog.kind = "uniqpipe") =>
        /\ regs[Len(prog.code)] = regs[Len(prog.code) - 1]
        /\ (input = UniqExample /\ Len(prog.code[2].args) = 1) =>
               regs[Len(prog.code)] = Arr([j \in 0..2 |-> Num(j + 1)])

C13_Witness ==
    /\ ProgramDone /\ prog.kind = "uniqpipe" /\ input = UniqExample
    /\ Length(regs[Len(prog.code)]) = 3
    /\ \E j \in DOMAIN Mapped : Mapped[j].args[1] = FILTERED

---------------------------------------------------------------------------
(* C14: a function that carries hooks keeps them when it gains new ones or *)
(* is wrapped: after stateful(f, setup, teardown) the setup of f runs and  *)
(* then the new one, the teardown of f and then the new one, and a hook of *)
(* f for which no new one is given stays in effect; filter, takeWhile,     *)
(* takeUntil, takeFrom and uniq of a stateful p run the setup and the      *)
(* teardown of p once per traversal.                                       *)

RECURSIVE ClientHooks(_, _)

(* the client callbacks that the operand x of the client program should    *)
(* run as its setup (or teardown), in order, read off the calls that made  *)
(* it                                                                      *)
ClientHooks(x, isSetup) ==
    IF x.t # "reg" THEN << >>
    ELSE LET ins == prog.code[x.v]
         IN  CASE ins.op = "stateful" ->
                    ClientHooks(ins.a, isSetup)
                       \o UserHook(IF isSetup THEN ins.b ELSE ins.d)
               [] ins.op \in {"filter", "takeWhile", "takeUntil", "takeFrom",
                              "uniq"} -> ClientHooks(ins.a, isSetup)
               [] OTHER -> << >>

IsClientStep(ev) == ev.e = "user"

(* the client callbacks run as hooks in the part from..to of the trace *)
ClientSteps(from, to) ==
    LET evs == SelectSeq(SubSeq(log, from, to), IsClientStep)
    IN  [j \in DOMAIN evs |-> Prim("user", evs[j].id)]

C14_HooksKept ==
    (Finished /\ prog.kind = "hooks") =>
        /\ ClientSteps(1, TeardownStart - 1) = ClientHooks(TravIns.b, TRUE)
        /\ ClientSteps(TeardownStart, Len(log)) = ClientHooks(TravIns.b, FALSE)
        /\ \A j \in DOMAIN log :
              IsClientStep(log[j]) => (j < FirstWork \/ j > LastWork)

---------------------------------------------------------------------------
(* C15: the reset callback of resettable(f, reset) is never called before  *)
(* or during the first traversal, and it is called exactly once, before    *)
(* any position is visited, in every traversal that follows at least one   *)
(* traversal that ran to completion.                                       *)

(* a traversal is running, or it was the last call, however it ended *)
AnyTraversal == InTraversal \/ Aborted

TravIndex == IF pc = "loop" THEN ip ELSE ip - 1

(* an earlier traversal of the program returned normally *)
CompletedBefore ==
    \E k \in 1..(TravIndex - 1) :
        IsTraversal(prog.code[k]) /\ regs[k] # THROWN

ResetCalls == {j \in DOMAIN log : log[j].e = "user" /\ log[j].id = 31}

C15_ResetAfterCompleted ==
    (AnyTraversal /\ prog.kind = "reset") =>
        /\ Cardinality(ResetCalls) = IF CompletedBefore THEN 1 ELSE 0
        /\ \A j \in ResetCalls : j < FirstWork

C15_Witness ==
    /\ ProgramDone /\ prog.kind = "reset"
    /\ Cardinality(ResetCalls) = 1
    /\ regs[ip - 1] # THROWN
    /\ Length(input) = MaxLen

---------------------------------------------------------------------------
(* C16: whenever the mapper, a step of a pipe or a predicate is called at  *)
(* a position, its second argument is the key that position has in the    *)
(* source collection (the source index for an ordered sequence, also after *)
(* earlier items were filtered out; the key for a keyed mapping), and the  *)
(* mapper itself gets the value at that position.                          *)

(* the position being evaluated when event j was recorded *)
PosOfEvent(j) ==
    log[CHOOSE k \in 1..j :
            /\ log[k].e = "pos"
            /\ \A h \in (k + 1)..j : log[h].e # "pos"].id

(* event j is a call made while the mapper is applied (not the reducer) *)
IsMapperCall(j) ==
    /\ IsCall(j)
    /\ \A h \in 1..j : log[h].e = "mapped" => log[h].id # PosOfEvent(j)

C16_OwnKey ==
    InTraversal =>
        \A j \in DOMAIN log :
            IsMapperCall(j) =>
                /\ log[j].args[2] = Num(KeyOfPos(PosOfEvent(j)))
                /\ log[j - 1].e = "pos" =>
                        log[j].args[1] = Get(coll, KeyOfPos(PosOfEvent(j)))

---------------------------------------------------------------------------
(* C19: pipe(f) with a single step f returns f itself: the value returned  *)
(* is the very function passed, no function object is created and the     *)
(* hooks of no function change.                                            *)
C19_SinglePipeIsStep ==
    [][(CallPipe /\ Len(cur.args) = 1) =>
          /\ regs'[ip] = Resolve(cur.args[1])
          /\ heap' = heap
          /\ wrappers' = wrappers]_vars

(* the last pipe built by the program *)
PipeIns == prog.code[Len(prog.code) - 1]

C19_Witness ==
    /\ ProgramDone /\ prog.kind = "pipe"
    /\ PipeIns.op = "pipe" /\ Len(PipeIns.args) = 1
    /\ regs[Len(prog.code) - 1] = Resolve(PipeIns.args[1])
    /\ isFn(regs[Len(prog.code) - 1])
    /\ heap[regs[Len(prog.code) - 1].v].setup # << >>
    /\ Length(regs[Len(prog.code)]) = MaxLen

---------------------------------------------------------------------------
(* C20: sum(c, m) returns a number for every collection c, the sum of the  *)
(* values the mapper returned and did not filter: 0 when c is empty or     *)
(* every item is filtered.                                                 *)
RECURSIVE Total(_)
Total(evs) == IF evs = << >> THEN 0 ELSE Head(evs).args[1].v + Total(Tail(evs))

C20_SumIsNumber ==
    (Finished /\ LastCall.op = "sum"
        /\ \A j \in DOMAIN Accepted : Accepted[j].args[1].t = "number") =>
        regs[ip - 1] = Num(Total(Accepted))

---------------------------------------------------------------------------
(* C17: a terminal method of a builder called with an extra step runs the  *)
(* pipe of the builder followed by the extra step, in that call only: the  *)
(* terminal calls made and the function got from the builder afterwards    *)
(* give what the builder gave before, and run no hook of the extra step.   *)

(* the calls of a program of kind "extra", counted from its end *)
BeforeIdx == Len(prog.code) - 4      \* w.map(c)
ExtraIdx  == Len(prog.code) - 3      \* the terminal with the extra step
AfterIdx  == Len(prog.code) - 2      \* w.map(c), again
GotIdx    == Len(prog.code)          \* it.map(c, w.get())

ExtraStep == prog.code[ExtraIdx].args[2]

IsOddValue(v) == Truthy(UserCall("odd", <<v, U, U, U>>))

(* the extra step applied to the items xs: it.filter(odd), or times2 with  *)
(* or without hooks                                                        *)
ExtraItems(x, xs) ==
    IF x = Reg(1) THEN SelectSeq(xs, IsOddValue)
    ELSE [j \in DOMAIN xs |-> UserCall("times2", <<xs[j], U, U, U>>)]

RECURSIVE SumValues(_)
SumValues(xs) == IF xs = << >> THEN 0 ELSE Head(xs).v + SumValues(Tail(xs))

ExtraHookRuns == {j \in DOMAIN log : log[j].e = "user" /\ log[j].id \in {21, 22}}

C17_ExtraStepOnce ==
    (Finished /\ prog.kind = "extra") =>
        /\ ip - 1 \in {AfterIdx, GotIdx} =>
              /\ regs[ip - 1] = regs[BeforeIdx]
              /\ ExtraHookRuns = {}
        /\ ip - 1 = ExtraIdx =>
              LET xs == ExtraItems(ExtraStep, Items(regs[BeforeIdx]))
              IN  /\ Cardinality(ExtraHookRuns) = IF ExtraStep = Reg(2) THEN 2 ELSE 0
                  /\ LastCall.op = "w.map" => Items(regs[ip - 1]) = xs
                  /\ (LastCall.op \in {"w.sum", "w.mapReduce"} /\ xs # << >>) =>
                        regs[ip - 1] = Num(SumValues(xs))

C17_Witness ==
    /\ ProgramDone /\ prog.kind = "extra"
    /\ prog.code[ExtraIdx].op = "w.map" /\ ExtraStep = Reg(2)
    /\ Len(prog.code) = 10
    /\ Length(regs[BeforeIdx]) >= 1
    /\ regs[ExtraIdx] # regs[BeforeIdx]
    /\ regs[GotIdx] = regs[BeforeIdx]

---------------------------------------------------------------------------
(* C18: whatever is done with a builder, the function (or the builder) it  *)
(* was constructed from keeps its hooks and its behaviour: the functions   *)
(* that existed before are unchanged, and a traversal with the function,   *)
(* or through the builder the builder was constructed from, runs the hooks *)
(* the function had and gives what the function gives.                     *)

(* the function the first builder of a program of kind "builder" wraps *)
SourceFn == prog.code[2].a

(* it.map(c, f), and w1.map(c) when a second builder was made from w1 *)
IsSourceTraversal(k) ==
    /\ k > 3
    /\ \/ prog.code[k].op = "map"
       \/ prog.code[3].op = "it" /\ prog.code[k].op = "w.map"
                                 /\ prog.code[k].a = Reg(2)

C18_SourceUntouched ==
    (prog.kind = "builder") =>
        /\ \A a \in DOMAIN InitHeap : heap[a] = InitHeap[a]
        /\ ip > 1 =>
              /\ heap[regs[1].v].setup = <<Prim("user", 11)>>
              /\ heap[regs[1].v].teardown = <<Prim("user", 12)>>
        /\ (Finished /\ IsSourceTraversal(ip - 1)) =>
              /\ ClientSteps(1, Len(log)) =
                    IF SourceFn = Reg(1) THEN <<Prim("user", 11), Prim("user", 12)>>
                                         ELSE << >>
              /\ Items(regs[ip - 1]) = ExtraItems(F("times2"), Items(input))

---------------------------------------------------------------------------
(* C21: after wrapper.stateful(setup, teardown) was called on a builder,   *)
(* whether the builder held one initial function, pending steps or a       *)
(* function compiled by get(), every later traversal through the builder   *)
(* runs setup once before the first position and teardown once after the   *)
(* loop.                                                                   *)

(* the chain of a program of kind "extra" calls wrapper.stateful(11, 12) *)
HasStatefulCall ==
    \E k \in 4..(BeforeIdx - 1) : prog.code[k].op = "w.stateful"

(* where the client callback n ran as a hook *)
HookRuns(n) == {j \in DOMAIN log : log[j].e = "user" /\ log[j].id = n}

C21_BuilderHooks ==
    (Finished /\ prog.kind = "extra" /\ HasStatefulCall
        /\ ip - 1 \in {BeforeIdx, ExtraIdx, AfterIdx}) =>
        /\ Cardinality(HookRuns(11)) = 1
        /\ \A j \in HookRuns(11) : j < FirstWork
        /\ Cardinality(HookRuns(12)) = 1
        /\ \A j \in HookRuns(12) : j > LastWork

---------------------------------------------------------------------------
(* C22: a terminal method of a builder takes the arguments of the static   *)
(* function it wraps: wrapper.reduce(c, reducer, seed) returns what        *)
(* mapReduce(c, wrapper.get(), reducer, seed) returns, the fold starting   *)
(* from the seed, and wrapper.mapReduce(c, extra, reducer, seed) starts    *)
(* from the seed too.                                                      *)

(* the calls of a program of kind "seed", counted from its end *)
FoldIdx   == Len(prog.code) - 2      \* the fold through the builder
StaticIdx == Len(prog.code)          \* it.mapReduce(c, w.get(), add, seed)

C22_SeedHonoured ==
    (Finished /\ prog.kind = "seed") =>
        /\ regs[ip - 1] = Num(SEED.v + Total(Accepted))
        /\ (ip - 1 = StaticIdx /\ prog.code[FoldIdx].args[2] \in {U, F("add")}) =>
              regs[FoldIdx] = regs[StaticIdx]

---------------------------------------------------------------------------
(* C23: skip(n) drops the first n items that reach it, wherever it stands  *)
(* in a pipe: over an ordered sequence, map with pipe(s, skip(n)) yields   *)
(* what map with s yields, without its first n entries.                    *)

(* the count n of a program of kind "skipafter" *)
SkipCount == prog.code[2].a.v

C23_SkipAfterStep ==
    (ProgramDone /\ prog.kind = "skipafter") =>
        regs[5] = Sub(regs[4], {j \in DOMAIN Items(regs[4]) : j > SkipCount})

---------------------------------------------------------------------------
(* C24: a builder created empty, with no step appended, is the identity    *)
(* step, also after get() was called on it: it().map(c) equals c, and      *)
(* chain calls made after it().get() give what the same chain calls give   *)
(* on a fresh empty builder.                                               *)

(* the calls of a program of kind "get": the traversal through the builder *)
(* that had no get(), and the traversal through the one that had           *)
PlainIdx ==
    CHOOSE k \in DOMAIN prog.code :
        /\ prog.code[k].op = "w.map"
        /\ \A h \in 1..(k - 1) : prog.code[h].op # "w.map"
WithGetIdx == Len(prog.code)

C24_EmptyBuilderIsIdentity ==
    (prog.kind = "get" /\ prog.code[2].a = U) =>
        /\ (Finished /\ ip - 1 = PlainIdx /\ PlainIdx = 3) => regs[ip - 1] = input
        /\ ProgramDone => regs[WithGetIdx] = regs[PlainIdx]

---------------------------------------------------------------------------
(* C25: get() is transparent and cached: two calls of get() with no chain  *)
(* call between them return the same function, and on a builder that holds *)
(* a step, calls of get() put anywhere among the chain calls change        *)
(* neither the output nor the hooks run of the traversals that follow.     *)

(* how many times st is a member of the pipe of a program of kind "get" *)
StatefulMembers ==
    1 + Cardinality({k \in 3..(PlainIdx - 1) : prog.code[k].op = "w.pipe"})

C25_GetTransparent ==
    (prog.kind = "get" /\ prog.code[2].a = Reg(1)) =>
        /\ \A k \in 1..(ip - 2) :
              (prog.code[k].op = "w.get" /\ prog.code[k + 1].op = "w.get") =>
                  regs[k] = regs[k + 1]
        /\ ProgramDone => regs[WithGetIdx] = regs[PlainIdx]
        /\ Finished =>
              /\ ClientSteps(1, TeardownStart - 1) =
                    [j \in 1..StatefulMembers |-> Prim("user", 21)]
              /\ ClientSteps(TeardownStart, Len(log)) =
                    [j \in 1..StatefulMembers |-> Prim("user", 22)]
              /\ \A j \in DOMAIN log :
                    IsClientStep(log[j]) => (j < FirstWork \/ j > LastWork)

(* three members, a get() after each chain call and two at the end, and    *)
(* items rejected and accepted                                             *)
C25_Witness ==
    /\ ProgramDone /\ prog.kind = "get" /\ prog.code[2].a = Reg(1)
    /\ StatefulMembers = 2
    /\ Len(prog.code) = 12
    /\ prog.code[10].op = "w.get" /\ prog.code[11].op = "w.get"
    /\ regs[10] = regs[11] /\ isFn(regs[11])
    /\ Len(Accepted) >= 1 /\ Len(Accepted) < Len(Mapped)
    /\ regs[WithGetIdx] = regs[PlainIdx]

---------------------------------------------------------------------------
(* C26: when a member passed to pipe is a builder whose compiled function  *)
(* carries hooks, the fused pipe carries hooks, and a traversal with it    *)
(* runs the setup and the teardown of that member as it does for a member  *)
(* that is a stateful function.                                            *)

(* the call of pipe in a program of kind "member" *)
MemberPipeIdx == Len(prog.code) - 1

C26_BuilderMemberHooks ==
    (prog.kind = "member") =>
        /\ ip > MemberPipeIdx => HasHooks(regs[MemberPipeIdx])
        /\ Finished =>
              /\ ClientSteps(1, TeardownStart - 1) = <<Prim("user", 21)>>
              /\ ClientSteps(TeardownStart, Len(log)) = <<Prim("user", 22)>>
              /\ \A j \in DOMAIN log :
                    IsClientStep(log[j]) => (j < FirstWork \/ j > LastWork)

---------------------------------------------------------------------------
(* C27: a position rejected by the mapper or by the reducer leaves the     *)
(* accumulator, the output container and the write cursor as they were;    *)
(* when the mapper rejects a position the reducer is not called for it; a  *)
(* FilteredRest returned by the reducer ends the traversal, which returns  *)
(* the accumulator as it was before that position.                         *)

(* what one iteration added to the trace *)
StepEvents == SubSeq(log', Len(log) + 1, Len(log'))

(* where, in the events of the iteration, the outcome of the mapper is *)
MappedIdx == CHOOSE k \in DOMAIN StepEvents : StepEvents[k].e = "mapped"

IsRejection(x) == x.t \in {"Filtered", "FilteredRest", "FilteredUntil"}

(* the reducer was called in the iteration; what it returned *)
ReducerInvoked == MappedIdx < Len(StepEvents)
ReducerOutcome == StepEvents[Len(StepEvents)].args[1]

C27_RejectionFrame ==
    [][/\ (pc = "loop" /\ i < len /\ pc' = "loop") =>
            /\ IsRejection(StepEvents[MappedIdx].args[1]) =>
                  ~ReducerInvoked /\ res' = res /\ resI' = resI
            /\ (ReducerInvoked /\ IsRejection(ReducerOutcome)) =>
                  res' = res /\ resI' = resI
            /\ (ReducerInvoked /\ ReducerOutcome.t = "FilteredRest") =>
                  i' = len
       /\ (pc = "loop" /\ ~(i < len) /\ pc' = "idle") => regs'[ip] = res]_vars

(* a traversal in which the mapper rejected a position and the reducer     *)
(* ended the loop with FilteredRest has returned what was accumulated      *)
C27_Witness ==
    /\ Finished /\ hasReducer /\ isFn(r)
    /\ \E j \in DOMAIN Mapped : isFiltered(Mapped[j].args[1])
    /\ \E j \in DOMAIN log :
          log[j].e = "ret" /\ log[j].id = r.v /\ log[j].args[1] = FILTERED_REST
    /\ Len(ReducerCalls) >= 2
    /\ regs[ip - 1].t = "number"
    /\ Len(Mapped) < Length(input)

---------------------------------------------------------------------------
(* C28: the teardown hook of the mapper and of the reducer is called with  *)
(* the final accumulator or result of the traversal as its argument.  As   *)
(* stated this fails: mapReduce calls f.teardown() with an empty argument  *)
(* list.  What holds: the teardown hook of the mapper and of the reducer,  *)
(* and every hook it is composed of, is called with no argument.           *)

(* the calls of teardown hooks by mapReduce, and the steps of the hooks *)
TeardownPhase == {j \in DOMAIN log : j >= TeardownStart}

C28_TeardownGetsResult ==
    Finished => \A j \in At("teardown") : log[j].args = <<regs[ip - 1]>>

C28_TeardownNoArgument ==
    Finished => \A j \in TeardownPhase : log[j].args = << >>

(* a traversal with a result, whose mapper and reducer both have a         *)
(* teardown hook, has called both                                          *)
C28_Witness ==
    /\ Finished /\ hasReducer
    /\ AtOn("teardown", m) # {} /\ AtOn("teardown", r) # {}
    /\ \E j \in TeardownPhase : log[j].e = "user"
    /\ regs[ip - 1].t = "number" /\ Len(Accepted) >= 2

---------------------------------------------------------------------------
(* C29: a pipe whose members are made by takeFrom, skip and limit, with    *)
(* stateless predicates, gives the same output for a collection on every   *)
(* traversal, whatever traversals the same pipe went through before: one   *)
(* over another collection, or one that a throwing callback aborted.       *)

(* the calls of the program that traverse *)
FirstRunIdx   == Len(prog.code) - 2
EarlierRunIdx == Len(prog.code) - 1
LaterRunIdx   == Len(prog.code)

C29_ReuseSameOutput ==
    (ProgramDone /\ prog.kind = "reuse") => regs[LaterRunIdx] = regs[FirstRunIdx]

(* a pipe of all three members kept some items of the collection and       *)
(* dropped others, after a traversal that a throwing callback aborted      *)
C29_Witness ==
    /\ ProgramDone /\ prog.kind = "reuse"
    /\ Len(prog.code[4].args) = 3
    /\ regs[EarlierRunIdx] = THROWN
    /\ IsArray(regs[LaterRunIdx])
    /\ Length(regs[LaterRunIdx]) >= 1
    /\ Length(regs[LaterRunIdx]) < Length(input)

---------------------------------------------------------------------------
(* C30: every traversal of a finite collection whose mapper is built from  *)
(* the library's constructors (filter, takeFrom, takeWhile, takeUntil,     *)
(* skip, limit, uniq, pipe, in any order and nesting, skip with any count  *)
(* >= 0) over terminating callbacks eventually leaves the loop and reaches *)
(* teardown.                                                               *)

C30_TraversalEnds == (pc = "loop") ~> Finished

(* the positions the loop evaluated, in order *)
PositionsVisited == [j \in 1..Len(SortedSeq(At("pos"))) |-> log[SortedSeq(At("pos"))[j]].id]

(* a traversal that went back to an earlier position has returned, after   *)
(* the teardown hook of its mapper                                         *)
C30_Witness ==
    /\ Finished /\ prog.kind = "live"
    /\ \E j \in 1..(Len(PositionsVisited) - 1) :
          PositionsVisited[j + 1] <= PositionsVisited[j]
    /\ At("teardown") # {}

---------------------------------------------------------------------------
(* C31: takeUntil(f) is equivalent to takeFrom of the negated filter: for  *)
(* every collection c, map(c, takeUntil(f)) equals                         *)
(* map(c, takeFrom((v, k, o) => !f(v, k, o))).  As stated this fails:      *)
(* takeUntil ends the traversal at the first item that passes f, while     *)
(* takeFrom of the negation starts to keep items at the first one that     *)
(* does not pass f.  What holds: for a filter function f without hooks,    *)
(* map(c, takeUntil(f)) equals map(c, takeWhile((v, k, o) => !f(v, k, o))).*)

(* the calls of the program that traverse *)
UntilRunIdx     == Len(prog.code) - 2
FromNotRunIdx   == Len(prog.code) - 1
WhileNotRunIdx  == Len(prog.code)

====
